---- MODULE Spec2Model ----
(***************************************************************************)
(* Model of the notes version-history engine (src/src/app.rs), the string  *)
(* helpers it uses (src/src/utils.rs, src/src/paths.rs) and the command    *)
(* dispatch of the binary (src/src/main.rs).                               *)
(*                                                                         *)
(* Strings are sequences of one-character strings, byte contents are       *)
(* opaque values of Contents.  The data root is three pieces of state: the *)
(* index file, the working copies under files/ and the version blobs under *)
(* versions/.  One application process at a time loads the index, runs one *)
(* command and saves; the user edits or removes working copies in between. *)
(* Of the timestamps only updated_at is kept, as the number of times the   *)
(* note has been given a reading of the clock: two readings differ.       *)
(***************************************************************************)
EXTENDS Integers, Sequences, FiniteSets, TLC

VARIABLES
    diskIndex,  \* index.json as NotesApp::load would read it
    index,      \* NotesApp.index of the running process
    files,      \* working copies: path files/<slug>.md -> bytes
    blobs,      \* version blobs: path versions/<slug>/<NNNNNNN>.md -> bytes
    pc,         \* position of the application process
    synced,     \* history: the slugs this process has snapshotted whose
                \* working copy nobody has written or removed since
    last,       \* the call the process has just made: name, arguments, result
    deleted,    \* history: the slugs whose deletion was saved to index.json
                \* and that no command has created and saved since
    marker,     \* daemon.pid: the process id it holds, if the file exists
    nextPid,    \* the process id the next process started gets
    starting,   \* processes in run_daemon that have not written daemon.pid
    running,    \* processes in run_daemon that have written daemon.pid
    foreign,    \* processes that belong to another user
    guarded,    \* history: every watcher so far was spawned by a command
                \* that went through ensure_daemon_running on its own
    cmd,        \* the commands in ensure_daemon_running: position, the pid
                \* read, and what the call has seen and done
    loop,       \* position of the loop of run_daemon
    rx,         \* the notifications sent to the channel and not yet received
    connected,  \* whether the sending side of the channel exists
    pending,    \* run_daemon's flag
    last_event, \* seconds since run_daemon set last_event
    waited,     \* seconds since the current recv_timeout was called
    quiet,      \* history: seconds since the last qualifying notification
                \* was sent
    burst,      \* history: qualifying notifications sent in the current
                \* burst, each less than a cooldown after the one before
    passes,     \* history: synchronization passes begun since the current
                \* burst began
    outcome,    \* history: how the last synchronization pass ended
    received,   \* history: qualifying notifications received since the last
                \* synchronization pass began
    sync_pc,    \* position of a synchronization pass that runs beside a
                \* command
    sync_index, \* the index of the NotesApp that pass loaded
    arg,        \* a string given to slugify
    ret         \* what slugify returned for it, and for that in turn

appVars == <<diskIndex, index, files, blobs, pc, synced, last, deleted>>

guardVars == <<marker, nextPid, starting, running, foreign, guarded, cmd>>

loopVars == <<loop, rx, connected, pending, last_event, waited, quiet, burst, passes, outcome,
             received>>

passVars == <<sync_pc, sync_index>>

daemonVars == <<guardVars, loopVars, passVars>>

pureVars == <<arg, ret>>

vars == <<appVars, daemonVars, pureVars>>

(***************************************************************************)
(* Bounds of the model.                                                    *)
(***************************************************************************)
\* Version records in one index, all notes together.  A note has at least
\* one record, so this also bounds the notes and each note's versions.
MaxRecords == 3

\* Processes started in one behaviour, and commands that are inside
\* ensure_daemon_running at the same time.
MaxPids == 2

MaxCommands == 2

\* Notifications in the channel at one time.
MaxQueue == 2

\* The notifications of one burst and the passes after it are counted up to
\* these.
MaxBurst == 2

MaxPasses == 2

\* Length of the strings given to slugify.
MaxLen == 4

\* Option<T>: None, or Some(x).
None == <<>>

Some(x) == <<x>>

unwrap(o) == o[1]

\* Byte contents a working copy can hold; "" is the empty file.
Contents == {"", "v2"}

\* Titles given to `new`; None is the omitted title.
Titles == {None, Some(<<"A">>), Some(<<"a", " ", "2">>)}

\* Formatted clock readings used for the default title.
Stamps == {<<"7">>}

\* Identifiers given to open, rollback and delete.
Identifiers == {<<"a">>, <<"A">>, <<"a", "-", "2">>, <<"z">>}

\* Explicit --version arguments of rollback (None is the omitted one).
Targets == {None, Some(0), Some(1), Some(2)}

(***************************************************************************)
(* Characters and strings.                                                 *)
(***************************************************************************)
UpperOf == [a |-> "A", b |-> "B", z |-> "Z", n |-> "N", o |-> "O", t |-> "T", e |-> "E"]

LowerLetters == DOMAIN UpperOf

UpperLetters == {UpperOf[c] : c \in LowerLetters}

DigitChars == <<"0", "1", "2", "3", "4", "5", "6", "7", "8", "9">>

is_ascii_alphanumeric(c) ==
    \/ c \in LowerLetters
    \/ c \in UpperLetters
    \/ \E i \in 1..10 : DigitChars[i] = c

is_whitespace(c) == c \in {" ", "\t"}

to_ascii_lowercase(c) ==
    IF c \in UpperLetters
    THEN CHOOSE l \in LowerLetters : UpperOf[l] = c
    ELSE c

to_lowercase(s) == [i \in 1..Len(s) |-> to_ascii_lowercase(s[i])]

\* an ends_with that never finds the character
ends_with_never(s, c) == FALSE

ends_with(s, c) == Len(s) > 0 /\ s[Len(s)] = c

RECURSIVE to_string(_)
to_string(n) ==
    IF n < 10 THEN <<DigitChars[n + 1]>>
    ELSE to_string(n \div 10) \o <<DigitChars[(n % 10) + 1]>>

RECURSIVE pad_left(_, _)
pad_left(s, width) == IF Len(s) >= width THEN s ELSE pad_left(<<"0">> \o s, width)

\* format!("{:07}", n)
format_07(n) == pad_left(to_string(n), 7)

RECURSIVE slugify_from(_, _, _)
slugify_from(input, i, slug) ==
    IF i > Len(input) THEN slug
    ELSE LET c == input[i] IN
         IF is_ascii_alphanumeric(c)
         THEN slugify_from(input, i + 1, Append(slug, to_ascii_lowercase(c)))
         ELSE IF is_whitespace(c) \/ c = "-" \/ c = "_"
              THEN IF ~ends_with(slug, "-")
                   THEN slugify_from(input, i + 1, Append(slug, "-"))
                   ELSE slugify_from(input, i + 1, slug)
              ELSE slugify_from(input, i + 1, slug)

slugify(input) ==
    LET looped == slugify_from(input, 1, <<>>)
        popped == IF ends_with(looped, "-") THEN SubSeq(looped, 1, Len(looped) - 1) ELSE looped
    IN IF popped = <<>> THEN <<"n", "o", "t", "e">> ELSE popped

\* SHA-256 in lowercase hex: collision-free on Contents, and not the bytes.
hash_bytes(bytes) == <<"sha256", bytes>>

(***************************************************************************)
(* Paths.                                                                  *)
(***************************************************************************)
working_file(slug) == <<"files", slug, ".md">>

\* a slip in the path: every version of a note at one path
version_rel_flat(slug, version_number) == <<"versions", slug, format_07(1), ".md">>

version_rel(slug, version_number) == <<"versions", slug, format_07(version_number), ".md">>

versions_dir(path) == path[2]

\* the slug in the path of a working copy
file_stem(path) == path[2]

(***************************************************************************)
(* Partial maps: the HashMap of the index and the directories.             *)
(***************************************************************************)
Empty == [x \in {} |-> None]

Put(f, k, v) == [x \in (DOMAIN f) \cup {k} |-> IF x = k THEN v ELSE f[x]]

Remove(f, ks) == [x \in (DOMAIN f) \ ks |-> f[x]]

\* the number of version records of the notes slugs of an index
RECURSIVE RecordsOf(_, _)
RecordsOf(idx, slugs) ==
    IF slugs = {} THEN 0
    ELSE LET s == CHOOSE x \in slugs : TRUE
         IN Len(idx[s].versions) + RecordsOf(idx, slugs \ {s})

Records(idx) == RecordsOf(idx, DOMAIN idx)

(***************************************************************************)
(* NotesApp: the operations of src/src/app.rs as functions of the          *)
(* application's world w = [index, files, blobs].  Each returns the world  *)
(* it leaves, res ("ok" or the error) and val (the value returned).        *)
(***************************************************************************)
World(idx, fs, bl) == [index |-> idx, files |-> fs, blobs |-> bl]

Ok(w, v) == [index |-> w.index, files |-> w.files, blobs |-> w.blobs, res |-> "ok", val |-> v]

Err(w, e) == [index |-> w.index, files |-> w.files, blobs |-> w.blobs, res |-> e, val |-> None]

VersionMeta(version_number, path, hash) ==
    [version |-> version_number, path |-> path, hash |-> hash]

\* versions.iter().find(|v| v.version == n): the first match, as an Option
find_version(versions, n) ==
    LET hits == {i \in 1..Len(versions) : versions[i].version = n}
    IN IF hits = {} THEN None
       ELSE Some(versions[CHOOSE i \in hits : \A j \in hits : i <= j])

\* a slip in the lookup: the path of the first version
first_version_path(note) == note.versions[1].path

current_version_path(note) ==
    LET found == find_version(note.versions, note.current_version)
    IN IF found # None THEN unwrap(found).path
       ELSE note.versions[Len(note.versions)].path

\* a slip in the loop: the suffix is tried once, not until free
unique_slug_once(idx, base, counter) ==
    IF base \in DOMAIN idx THEN base \o <<"-">> \o to_string(counter + 1) ELSE base

\* the free slug create_note settles on, trying counter, counter + 1, ...
RECURSIVE unique_slug(_, _, _)
unique_slug(idx, base, counter) ==
    LET slug == IF counter = 1 THEN base ELSE base \o <<"-">> \o to_string(counter)
    IN IF slug \in DOMAIN idx THEN unique_slug(idx, base, counter + 1) ELSE slug

default_title(now) == <<"n", "o", "t", "e", "-">> \o now

\* a slip in the numbering: versions start at 0
first_version_number_zero == 1 - 1

first_version_number == 1

create_note(w, title_opt, now) ==
    LET title == IF title_opt = None THEN default_title(now) ELSE unwrap(title_opt)
        slug == unique_slug(w.index, slugify(title), 1)
        version_number == first_version_number
        version_path_rel == version_rel(slug, version_number)
        hash == hash_bytes("")
        version == VersionMeta(version_number, version_path_rel, hash)
        meta == [title |-> title, slug |-> slug, current_version |-> version_number,
                 versions |-> <<version>>, working_hash |-> Some(hash),
                 updated_at |-> 1]
    IN Ok(World(Put(w.index, slug, meta),
                Put(w.files, working_file(slug), ""),
                Put(w.blobs, version_path_rel, "")),
          working_file(slug))

ensure_working_copy_exists(w, slug) ==
    IF working_file(slug) \in DOMAIN w.files THEN Ok(w, None)
    ELSE IF slug \notin DOMAIN w.index THEN Err(w, "NotFound")
    ELSE LET source == current_version_path(w.index[slug])
         IN IF source \notin DOMAIN w.blobs THEN Err(w, "Io")
            ELSE Ok(World(w.index, Put(w.files, working_file(slug), w.blobs[source]), w.blobs),
                    None)

\* a slip in the numbering: the next number skips one
next_version_number_skipping(note) == note.current_version + 2

next_version_number(note) == note.current_version + 1

\* a slip in the comparison: the first version instead of the last
same_as_first(note, hash) ==
    /\ Len(note.versions) > 0
    /\ note.versions[1].hash = hash

\* a slip in the comparison: any version instead of the last
same_as_any(note, hash) ==
    \E i \in 1..Len(note.versions) : note.versions[i].hash = hash

\* a slip in the comparison: nothing counts as unchanged
same_as_none(note, hash) == FALSE

\* the comparison that decides "unchanged"
same_as_last(note, hash) ==
    /\ Len(note.versions) > 0
    /\ note.versions[Len(note.versions)].hash = hash

\* a slip in the bookkeeping: current_version is left behind
push_version_keeping_current(note, meta, hash) ==
    [note EXCEPT !.versions = Append(@, meta),
                 !.updated_at = @ + 1,
                 !.working_hash = Some(hash)]

\* a slip in the bookkeeping: the new record replaces the last one
push_version_overwriting(note, meta, hash) ==
    [note EXCEPT !.versions = Append(SubSeq(@, 1, Len(@) - 1), [meta EXCEPT !.version = Len(note.versions)]),
                 !.current_version = Len(note.versions),
                 !.updated_at = @ + 1,
                 !.working_hash = Some(hash)]

\* a slip in the bookkeeping: working_hash is left behind
push_version_keeping_hash(note, meta, hash) ==
    [note EXCEPT !.versions = Append(@, meta),
                 !.current_version = meta.version,
                 !.updated_at = @ + 1]

\* a slip in the bookkeeping: updated_at is left behind
push_version_keeping_stamp(note, meta, hash) ==
    [note EXCEPT !.versions = Append(@, meta),
                 !.current_version = meta.version,
                 !.working_hash = Some(hash)]

\* versions.push(meta), current_version, updated_at = now, working_hash
push_version(note, meta, hash) ==
    [note EXCEPT !.versions = Append(@, meta),
                 !.current_version = meta.version,
                 !.updated_at = @ + 1,
                 !.working_hash = Some(hash)]

\* snapshot_if_changed from its read of the working copy on; w is what
\* ensure_working_copy_exists returned
promote_working_copy(w, slug) ==
    IF w.res # "ok" THEN Err(w, w.res)
    ELSE IF slug \notin DOMAIN w.index THEN Err(w, "NotFound")
    ELSE LET note == w.index[slug]
             content == w.files[working_file(slug)]
             hash == hash_bytes(content)
             version_path == version_rel(slug, next_version_number(note))
         IN IF same_as_last(note, hash)
            THEN Ok(World(Put(w.index, slug, [note EXCEPT !.working_hash = Some(hash)]),
                          w.files, w.blobs),
                    FALSE)
            ELSE Ok(World(Put(w.index, slug,
                              push_version(note,
                                           VersionMeta(next_version_number(note),
                                                       version_path, hash),
                                           hash)),
                          w.files,
                          Put(w.blobs, version_path, content)),
                    TRUE)

snapshot_if_changed(w, slug) ==
    promote_working_copy(ensure_working_copy_exists(w, slug), slug)

\* open_note after its snapshot step; s is what snapshot_if_changed returned
opened(s, slug) == IF s.res # "ok" THEN s ELSE [s EXCEPT !.val = working_file(slug)]

\* a slip in open_note: the snapshot step is left out
open_note_without_snapshot(w, resolved) ==
    IF resolved = None THEN Err(w, "NotFound")
    ELSE opened(Ok(w, FALSE), unwrap(resolved))

open_note(w, resolved) ==
    IF resolved = None THEN Err(w, "NotFound")
    ELSE opened(snapshot_if_changed(w, unwrap(resolved)), unwrap(resolved))

\* a slip in the floor: the subtraction stops at 1
saturating_sub_floor_one(a, b) == IF a > b THEN a - b ELSE 1

\* u32::saturating_sub
saturating_sub(a, b) == IF a >= b THEN a - b ELSE 0

\* a slip in the target: the version after the one asked for
desired_version_off_by_one(note, target_version) ==
    IF target_version # None THEN unwrap(target_version) + 1
    ELSE saturating_sub(note.current_version, 1)

\* a slip in the default: the current version itself
desired_version_current(note, target_version) ==
    IF target_version # None THEN unwrap(target_version)
    ELSE note.current_version

\* the version rollback copies: --version, or the one before the current
desired_version(note, target_version) ==
    IF target_version # None THEN unwrap(target_version)
    ELSE saturating_sub(note.current_version, 1)

\* rollback from the copy of the target blob on; target is the VersionMeta
copy_forward(w, slug, note, target) ==
    IF target.path \notin DOMAIN w.blobs THEN Err(w, "Io")
    ELSE LET content == w.blobs[target.path]
             hash == hash_bytes(content)
             new_version_rel == version_rel(slug, next_version_number(note))
         IN Ok(World(Put(w.index, slug,
                         push_version(note,
                                      VersionMeta(next_version_number(note),
                                                  new_version_rel, hash),
                                      hash)),
                     Put(w.files, working_file(slug), content),
                     Put(w.blobs, new_version_rel, content)),
               working_file(slug))

\* rollback after its snapshot step; w is what snapshot_if_changed returned
roll_back_to(w, slug, target_version) ==
    IF w.res # "ok" THEN Err(w, w.res)
    ELSE IF slug \notin DOMAIN w.index THEN Err(w, "NotFound")
    ELSE LET note == w.index[slug]
             desired == desired_version(note, target_version)
         IN IF desired = 0 THEN Err(w, "NoPrevious")
            ELSE IF find_version(note.versions, desired) = None THEN Err(w, "NotFound")
            ELSE copy_forward(w, slug, note, unwrap(find_version(note.versions, desired)))

\* a slip in rollback: the snapshot step is left out
rollback_without_snapshot(w, resolved, target_version) ==
    IF resolved = None THEN Err(w, "NotFound")
    ELSE roll_back_to(Ok(w, FALSE), unwrap(resolved), target_version)

rollback(w, resolved, target_version) ==
    IF resolved = None THEN Err(w, "NotFound")
    ELSE roll_back_to(snapshot_if_changed(w, unwrap(resolved)), unwrap(resolved),
                      target_version)

\* the notes resolve_unique_title_slug collects
title_matches(idx, title) == {s \in DOMAIN idx : to_lowercase(idx[s].slug) = title}

\* a delete that leaves the note's versions directory behind
remove_note_keeping_blobs(w, slug) ==
    IF slug \notin DOMAIN w.index THEN Err(w, "NotFound")
    ELSE Ok(World(Remove(w.index, {slug}),
                  Remove(w.files, {working_file(slug)}),
                  w.blobs),
            w.index[slug].slug)

\* a slip in the removal: the record stays in the index
remove_note_keeping_record(w, slug) ==
    IF slug \notin DOMAIN w.index THEN Err(w, "NotFound")
    ELSE Ok(World(w.index,
                  Remove(w.files, {working_file(slug)}),
                  Remove(w.blobs, {p \in DOMAIN w.blobs : versions_dir(p) = slug})),
            w.index[slug].slug)

\* delete_note_by_title once the title has resolved to slug
remove_note(w, slug) ==
    IF slug \notin DOMAIN w.index THEN Err(w, "NotFound")
    ELSE Ok(World(Remove(w.index, {slug}),
                  Remove(w.files, {working_file(slug)}),
                  Remove(w.blobs, {p \in DOMAIN w.blobs : versions_dir(p) = slug})),
            w.index[slug].slug)

\* a delete that takes the first of several matches
delete_note_by_title_first_match(w, title) ==
    IF title_matches(w.index, title) = {} THEN Err(w, "NotFound")
    ELSE remove_note(w, w.index[CHOOSE s \in title_matches(w.index, title) : TRUE].slug)

delete_note_by_title(w, title) ==
    IF title_matches(w.index, title) = {} THEN Err(w, "NotFound")
    ELSE IF Cardinality(title_matches(w.index, title)) > 1 THEN Err(w, "Ambiguous")
    ELSE remove_note(w, w.index[CHOOSE s \in title_matches(w.index, title) : TRUE].slug)

\* the blobs under versions/<slug>/
blobs_of(w, slug) == {p \in DOMAIN w.blobs : versions_dir(p) = slug}

\* delete_note_by_title when a file system call fails with an I/O error
\* after the title has resolved to slug and the note has left the index:
\* fs::remove_file of the working file, with nothing removed yet, or
\* fs::remove_dir_all of the versions directory, with the working file
\* removed and the blobs in gone removed before the error
remove_note_failing(w, slug, at, gone) ==
    IF at = "remove_file"
    THEN Err(World(Remove(w.index, {slug}), w.files, w.blobs), "Io")
    ELSE Err(World(Remove(w.index, {slug}),
                   Remove(w.files, {working_file(slug)}),
                   Remove(w.blobs, gone)),
             "Io")

\* snapshot_all_changes: snapshot_if_changed over the keys in the order the
\* HashMap yields them, stopping at the first error; s is what the call on
\* the first of slugs returned, updated the slugs promoted before it
RECURSIVE snapshot_all_from(_, _, _)
snapshot_all_from(s, slugs, updated) ==
    IF s.res # "ok" THEN Err(s, s.res)
    ELSE IF Len(slugs) = 1
         THEN Ok(s, IF s.val THEN Append(updated, Head(slugs)) ELSE updated)
         ELSE snapshot_all_from(snapshot_if_changed(s, slugs[2]), Tail(slugs),
                                IF s.val THEN Append(updated, Head(slugs)) ELSE updated)

snapshot_all_changes(w, slugs) ==
    IF slugs = <<>> THEN Ok(w, <<>>)
    ELSE snapshot_all_from(snapshot_if_changed(w, Head(slugs)), slugs, <<>>)

\* the orders in which a HashMap with these keys can be iterated
KeyOrders(S) ==
    {q \in [1..Cardinality(S) -> S] : \A i, j \in 1..Cardinality(S) : i # j => q[i] # q[j]}

\* what resolve_slug can return: the exact key, or else the first note the
\* HashMap yields whose title or slug matches the lowercased identifier
resolve_slug(idx, identifier) ==
    IF identifier \in DOMAIN idx THEN {Some(identifier)}
    ELSE LET id_lower == to_lowercase(identifier)
             hits == {s \in DOMAIN idx :
                        \/ to_lowercase(idx[s].title) = id_lower
                        \/ idx[s].slug = id_lower}
         IN IF hits = {} THEN {None} ELSE {Some(idx[s].slug) : s \in hits}

(***************************************************************************)
(* src/src/daemon.rs: the marker file daemon.pid and the processes around  *)
(* it.  Each access to the file system or to the process table is a step   *)
(* of its own, so that commands and watchers interleave between them.      *)
(***************************************************************************)
Commands == 1..MaxCommands

\* a command outside ensure_daemon_running.  pid: the process id read from
\* the marker; probe: what kill(pid, 0) gave; live: whether that process
\* existed when it was probed; removed: whether the call removed the marker
NoEnsure == [pc |-> "idle", pid |-> None, probe |-> None, live |-> FALSE,
             removed |-> FALSE]

At(c, where) == [cmd EXCEPT ![c].pc = where]

\* the processes that exist
alive == starting \cup running

\* what libc::kill(pid, 0) gives: ESRCH when no such process exists, EPERM
\* when it exists and belongs to another user, 0 otherwise
kill(pid) ==
    IF pid \notin alive THEN "ESRCH"
    ELSE IF pid \in foreign THEN "EPERM"
    ELSE "ok"

\* a probe whose test of the result is inverted
after_kill_inverted(result) ==
    IF result = "ok" THEN "spawn" ELSE "returned"

\* a probe that takes every failure for "no such process" without removing
\* the marker
after_kill_keeping_marker(result) ==
    IF result = "ok" THEN "returned" ELSE "spawn"

\* daemon_running after the probe: Ok(true) and ensure_daemon_running
\* returns; ESRCH and the marker is removed; any other error and Ok(false)
after_kill(result) ==
    IF result = "ok" THEN "returned"
    ELSE IF result = "ESRCH" THEN "remove"
    ELSE "spawn"

InitGuard ==
    /\ marker = None
    /\ nextPid = 1
    /\ starting = {}
    /\ running = {}
    /\ foreign = {}
    /\ guarded = TRUE
    /\ cmd = [c \in Commands |-> NoEnsure]

\* no other command is inside ensure_daemon_running and no watcher is
\* between its start and its write of daemon.pid
Alone(c) ==
    /\ starting = {}
    /\ \A other \in Commands \ {c} : cmd[other].pc \in {"idle", "returned"}

\* a command calls ensure_daemon_running; with NOTES_DISABLE_DAEMON set it
\* returns at once
EnsureDaemonRunning(c, disabled) ==
    /\ cmd[c].pc = "idle"
    /\ cmd' = At(c, IF disabled THEN "returned" ELSE "exists")
    /\ guarded' = (guarded /\ (disabled \/ Alone(c)))
    /\ UNCHANGED <<marker, nextPid, starting, running, foreign, appVars, loopVars, passVars,
                   pureVars>>

\* daemon_running: paths.daemon_pid.exists()
MarkerExists(c) ==
    /\ cmd[c].pc = "exists"
    /\ cmd' = At(c, IF marker = None THEN "spawn" ELSE "read")
    /\ UNCHANGED <<marker, nextPid, starting, running, foreign, guarded, appVars, loopVars, passVars,
                   pureVars>>

\* daemon_running: read_to_string(..).unwrap_or_default() and parse; a file
\* removed since exists() reads as "" and does not parse
ReadMarker(c) ==
    /\ cmd[c].pc = "read"
    /\ cmd' = IF marker = None THEN At(c, "spawn")
              ELSE [cmd EXCEPT ![c].pc = "kill", ![c].pid = marker]
    /\ UNCHANGED <<marker, nextPid, starting, running, foreign, guarded, appVars, loopVars, passVars,
                   pureVars>>

\* daemon_running: libc::kill(pid, 0)
Probe(c) ==
    /\ cmd[c].pc = "kill"
    /\ cmd' = [cmd EXCEPT ![c].pc = after_kill(kill(unwrap(cmd[c].pid))),
                          ![c].probe = Some(kill(unwrap(cmd[c].pid))),
                          ![c].live = unwrap(cmd[c].pid) \in alive]
    /\ UNCHANGED <<marker, nextPid, starting, running, foreign, guarded, appVars, loopVars, passVars,
                   pureVars>>

\* daemon_running: let _ = fs::remove_file(&paths.daemon_pid)
RemoveMarker(c) ==
    /\ cmd[c].pc = "remove"
    /\ marker' = None
    /\ cmd' = [cmd EXCEPT ![c].pc = "spawn", ![c].removed = TRUE]
    /\ UNCHANGED <<nextPid, starting, running, foreign, guarded, appVars, loopVars, passVars,
                   pureVars>>

\* ensure_daemon_running: spawn `notes daemon` and return
SpawnDaemon(c) ==
    /\ cmd[c].pc = "spawn"
    /\ nextPid <= MaxPids
    /\ starting' = starting \cup {nextPid}
    /\ nextPid' = nextPid + 1
    /\ cmd' = At(c, "returned")
    /\ UNCHANGED <<marker, running, foreign, guarded, appVars, loopVars, passVars,
                   pureVars>>

\* the command goes on with its own work and exits
CommandExits(c) ==
    /\ cmd[c].pc = "returned"
    /\ cmd' = [cmd EXCEPT ![c] = NoEnsure]
    /\ UNCHANGED <<marker, nextPid, starting, running, foreign, guarded, appVars, loopVars, passVars,
                   pureVars>>

\* `notes daemon` started by the user, by another user on the same data
\* root, by systemd or by launchd: main goes to run_daemon without looking
\* at the marker
StartDaemon(other_user) ==
    /\ nextPid <= MaxPids
    /\ starting' = starting \cup {nextPid}
    /\ nextPid' = nextPid + 1
    /\ foreign' = IF other_user THEN foreign \cup {nextPid} ELSE foreign
    /\ guarded' = FALSE
    /\ UNCHANGED <<marker, running, cmd, appVars, loopVars, passVars,
                   pureVars>>

\* a write_pid that leaves the marker of another process alone
write_pid_if_free(m, p) == IF m = None THEN Some(p) ELSE m

\* write_pid: fs::write of the process id, whatever the file holds
write_pid(m, p) == Some(p)

\* run_daemon: write_pid, then the watcher loop
WritePid(p) ==
    /\ p \in starting
    /\ marker' = write_pid(marker, p)
    /\ starting' = starting \ {p}
    /\ running' = running \cup {p}
    /\ UNCHANGED <<nextPid, cmd, foreign, guarded, appVars, loopVars, passVars,
                   pureVars>>

\* a watcher process ends: killed, or an error before its loop; the marker
\* stays
DaemonExits(p) ==
    /\ p \in alive
    /\ starting' = starting \ {p}
    /\ running' = running \ {p}
    /\ UNCHANGED <<marker, nextPid, cmd, foreign, guarded, appVars, loopVars, passVars,
                   pureVars>>

NextGuard ==
    \/ \E c \in Commands, disabled \in BOOLEAN : EnsureDaemonRunning(c, disabled)
    \/ \E c \in Commands : MarkerExists(c)
    \/ \E c \in Commands : ReadMarker(c)
    \/ \E c \in Commands : Probe(c)
    \/ \E c \in Commands : RemoveMarker(c)
    \/ \E c \in Commands : SpawnDaemon(c)
    \/ \E c \in Commands : CommandExits(c)
    \/ \E other_user \in BOOLEAN : StartDaemon(other_user)
    \/ \E p \in 1..MaxPids : WritePid(p)
    \/ \E p \in 1..MaxPids : DaemonExits(p)

(***************************************************************************)
(* src/src/daemon.rs: the loop of run_daemon.  Time is counted in seconds  *)
(* and passes in steps of Delays; a count stops at cooldown, the only      *)
(* value it is compared with.                                              *)
(***************************************************************************)
cooldown == 30

\* the time that passes in one step
Delays == {10, 30}

\* what the notify callback sends: an event with a .md path, an event
\* without one, or an error
Notifications == {"md", "other", "error"}

\* how sync_snapshots ends: Ok, or the error of load, of snapshot_if_changed
\* on one note, of log_line or of save
Results == {"ok", "load", "note", "log", "save"}

later(t, d) == IF t + d >= cooldown THEN cooldown ELSE t + d

\* a loop that waits a third of the cooldown for an event
timed_out_early(elapsed) == 3 * elapsed >= cooldown

\* rx.recv_timeout(cooldown) gives Err(Timeout)
timed_out(elapsed) == elapsed >= cooldown

\* a loop that runs a pass on every timeout
sync_due_ignoring_flag(flag, elapsed) == elapsed >= cooldown

\* run_daemon, Timeout arm: pending && last_event.elapsed() >= cooldown
sync_due(flag, elapsed) == flag /\ elapsed >= cooldown

\* a loop that forgets to clear the flag
pending_kept == TRUE

\* run_daemon, Timeout arm: pending = false
pending_after_sync == FALSE

\* a loop that empties the channel when the pass is over
channel_drained(queue) == <<>>

\* run_daemon, Timeout arm: the receiver is not touched, what was sent
\* during the pass waits in the channel
channel_after_sync(queue) == queue

\* a loop that returns the error of the pass with `?`
after_sync_propagating(result) == IF result = "ok" THEN "recv" ELSE "ended"

\* run_daemon, Timeout arm: the error of sync_snapshots is logged and dropped
after_sync(result) == "recv"

\* a pass that writes every working copy it looks at
recreates_always(w, r) == TRUE

\* whether a call of snapshot_all_changes wrote into files/: it recreates
\* the working copies that are missing
recreates(w, r) == \E f \in DOMAIN r.files : f \notin DOMAIN w.files

\* the notes snapshot_all_changes has gone through when sync_snapshots ends
\* with result: none when load fails, those before the failing one when one
\* fails, else all
reached(result, slugs) ==
    IF result = "load" THEN {<<>>}
    ELSE IF result = "note" THEN {SubSeq(slugs, 1, n) : n \in 0..(Len(slugs) - 1)}
    ELSE {slugs}

\* a pass that saves what it has got when it fails
sync_snapshots_saving(w, result, slugs) ==
    LET r == snapshot_all_changes(w, slugs)
    IN World(r.index, r.files, r.blobs)

\* sync_snapshots: load, snapshot_all_changes, log_line when a note was
\* updated, save.  Its world has index.json as index.
sync_snapshots(w, result, slugs) ==
    LET r == snapshot_all_changes(w, slugs)
    IN IF result = "ok" THEN World(r.index, r.files, r.blobs)
       ELSE World(w.index, r.files, r.blobs)

InitLoop ==
    /\ loop = "recv"
    /\ rx = <<>>
    /\ connected = TRUE
    /\ pending = FALSE
    /\ last_event = 0
    /\ waited = 0
    /\ quiet = cooldown
    /\ burst = 0
    /\ passes = 0
    /\ outcome = "none"
    /\ received = 0

\* no synchronization pass runs beside the commands
InitPass ==
    /\ sync_pc = "idle"
    /\ sync_index = Empty

\* slugify is given nothing
InitPure ==
    /\ arg = <<>>
    /\ ret = <<>>

\* time passes
Tick(d) ==
    /\ last_event' = later(last_event, d)
    /\ waited' = IF loop = "recv" THEN later(waited, d) ELSE waited
    /\ quiet' = later(quiet, d)
    /\ UNCHANGED <<loop, rx, connected, pending, burst, passes, outcome,
                   appVars, guardVars, passVars, pureVars, received>>

\* a qualifying notification is sent: it goes on with the burst, or begins
\* one when the last one was sent a cooldown ago or more
Sent(kind) ==
    /\ quiet' = IF kind = "md" THEN 0 ELSE quiet
    /\ burst' = IF kind # "md" THEN burst
                ELSE IF quiet >= cooldown THEN 1
                ELSE IF burst < MaxBurst THEN burst + 1
                ELSE burst
    /\ passes' = IF kind = "md" /\ quiet >= cooldown THEN 0 ELSE passes

\* the notify callback sends what it saw in files/
Notify(kind) ==
    /\ connected
    /\ Len(rx) < MaxQueue
    /\ rx' = Append(rx, kind)
    /\ Sent(kind)
    /\ UNCHANGED <<loop, connected, pending, last_event, waited, outcome,
                   appVars, guardVars, passVars, pureVars, received>>

\* the user saves a working copy, and the callback sends the event
WatchedWrite(slug, bytes) ==
    /\ connected
    /\ Len(rx) < MaxQueue
    /\ Records(diskIndex) < MaxRecords
    /\ working_file(slug) \in DOMAIN files
    /\ files[working_file(slug)] # bytes
    /\ files' = Put(files, working_file(slug), bytes)
    /\ rx' = Append(rx, "md")
    /\ Sent("md")
    /\ UNCHANGED <<diskIndex, index, blobs, pc, synced, last, loop, connected,
                   pending, last_event, waited, outcome, guardVars, passVars,
                   pureVars, received, deleted>>

\* the user removes a working copy, and the callback sends the event
WatchedRemove(slug) ==
    /\ connected
    /\ Len(rx) < MaxQueue
    /\ working_file(slug) \in DOMAIN files
    /\ files' = Remove(files, {working_file(slug)})
    /\ rx' = Append(rx, "md")
    /\ Sent("md")
    /\ UNCHANGED <<diskIndex, index, blobs, pc, synced, last, loop, connected,
                   pending, last_event, waited, outcome, guardVars, passVars,
                   pureVars, received, deleted>>

\* the sending side of the channel is dropped
SourceCloses ==
    /\ connected
    /\ connected' = FALSE
    /\ UNCHANGED <<loop, rx, pending, last_event, waited, quiet, burst, passes,
                   outcome, appVars, guardVars, passVars, pureVars, received>>

\* run_daemon: Ok(Ok(event))
ReceiveEvent ==
    /\ loop = "recv"
    /\ rx # <<>>
    /\ Head(rx) \in {"md", "other"}
    /\ rx' = Tail(rx)
    /\ pending' = (pending \/ Head(rx) = "md")
    /\ last_event' = IF Head(rx) = "md" THEN 0 ELSE last_event
    /\ waited' = 0
    /\ received' = IF Head(rx) = "md" /\ received < MaxBurst THEN received + 1
                   ELSE received
    /\ UNCHANGED <<loop, connected, quiet, burst, passes, outcome, appVars,
                   guardVars, passVars, pureVars>>

\* run_daemon: Ok(Err(err)), logged with let _ = log_line(..)
ReceiveError ==
    /\ loop = "recv"
    /\ rx # <<>>
    /\ Head(rx) = "error"
    /\ rx' = Tail(rx)
    /\ waited' = 0
    /\ UNCHANGED <<loop, connected, pending, last_event, quiet, burst, passes,
                   outcome, appVars, guardVars, passVars, pureVars, received>>

\* run_daemon: Err(Timeout), after a cooldown with nothing in the channel
Timeout ==
    /\ loop = "recv"
    /\ rx = <<>>
    /\ connected
    /\ timed_out(waited)
    /\ loop' = IF sync_due(pending, last_event) THEN "sync" ELSE "recv"
    /\ passes' = IF sync_due(pending, last_event) /\ passes < MaxPasses THEN passes + 1
                 ELSE passes
    /\ waited' = 0
    /\ received' = IF sync_due(pending, last_event) THEN 0 ELSE received
    /\ UNCHANGED <<rx, connected, pending, last_event, quiet, burst, outcome,
                   appVars, guardVars, passVars, pureVars>>

\* run_daemon, Timeout arm: sync_snapshots, then pending = false; a working
\* copy the pass recreates is an event of its own
SyncSnapshots(result) ==
    /\ loop = "sync"
    /\ \E slugs \in KeyOrders(DOMAIN diskIndex) :
         \E done \in reached(result, slugs) :
            LET w == World(diskIndex, files, blobs)
                r == sync_snapshots(w, result, done)
            IN /\ result = "log" => snapshot_all_changes(w, done).val # <<>>
               /\ diskIndex' = r.index
               /\ files' = r.files
               /\ blobs' = r.blobs
               /\ rx' = channel_after_sync(IF recreates(w, r) /\ connected
                                            THEN Append(rx, "md") ELSE rx)
               /\ IF recreates(w, r) /\ connected THEN Sent("md")
                  ELSE UNCHANGED <<quiet, burst, passes>>
    /\ pending' = pending_after_sync
    /\ loop' = after_sync(result)
    /\ outcome' = result
    /\ waited' = 0
    /\ UNCHANGED <<index, pc, synced, last, connected, last_event, guardVars,
                   passVars, pureVars, received, deleted>>

\* run_daemon: Err(Disconnected), the loop ends
Disconnected ==
    /\ loop = "recv"
    /\ rx = <<>>
    /\ ~connected
    /\ loop' = "ended"
    /\ UNCHANGED <<rx, connected, pending, last_event, waited, quiet, burst,
                   passes, outcome, appVars, guardVars, passVars, pureVars,
                   received>>

NextWatcher ==
    \/ \E d \in Delays : Tick(d)
    \/ \E kind \in Notifications : Notify(kind)
    \/ \E slug \in DOMAIN diskIndex, bytes \in Contents : WatchedWrite(slug, bytes)
    \/ \E slug \in DOMAIN diskIndex : WatchedRemove(slug)
    \/ SourceCloses
    \/ ReceiveEvent
    \/ ReceiveError
    \/ Timeout
    \/ \E result \in Results : SyncSnapshots(result)
    \/ Disconnected

(***************************************************************************)
(* The state machine.                                                      *)
(***************************************************************************)
\* op: the call; slug: the note the call resolved to or created; target:
\* rollback's version argument for that note; res: "ok" or the error; changed: whether
\* the call's snapshot step promoted the working copy; again: whether the
\* note was in synced when the call was made; missing: whether the note had
\* no working file then
NoCall == [op |-> "none", target |-> None, slug |-> None, res |-> "ok",
           changed |-> FALSE, again |-> FALSE, missing |-> FALSE]

Call(op, target, slug, res, changed) ==
    [op |-> op, target |-> target, slug |-> slug, res |-> res, changed |-> changed,
     again |-> slug # None /\ unwrap(slug) \in synced,
     missing |-> slug # None /\ working_file(unwrap(slug)) \notin DOMAIN files]

WithinBounds(idx) ==
    Records(idx) <= MaxRecords

\* A fresh data root: no index.json, empty files/ and versions/.
Init ==
    /\ diskIndex = Empty
    /\ index = Empty
    /\ files = Empty
    /\ blobs = Empty
    /\ pc = "idle"
    /\ synced = {}
    /\ last = NoCall
    /\ deleted = {}
    /\ InitGuard
    /\ InitLoop
    /\ InitPass
    /\ InitPure

\* a call returned r: the process holds r's world and goes on to save, or
\* propagates the error
Returned(r, snapshotted, written) ==
    /\ WithinBounds(r.index)
    /\ synced' = IF r.res = "ok"
                 THEN ((synced \cup snapshotted) \ written) \cap DOMAIN r.index
                 ELSE {}
    /\ index' = r.index
    /\ files' = r.files
    /\ blobs' = r.blobs
    /\ pc' = IF r.res = "ok" THEN "tosave" ELSE "failed"
    /\ UNCHANGED <<diskIndex, daemonVars, pureVars, deleted>>

Load ==
    /\ pc = "idle"
    /\ index' = diskIndex
    /\ pc' = "loaded"
    /\ synced' = {}
    /\ UNCHANGED <<diskIndex, files, blobs, last, daemonVars, pureVars, deleted>>

\* a save that keeps the notes of index.json that the index does not hold
save_merging(on_disk, idx) ==
    [slug \in (DOMAIN on_disk) \cup (DOMAIN idx) |->
        IF slug \in DOMAIN idx THEN idx[slug] ELSE on_disk[slug]]

\* a save that joins, note by note, the versions index.json holds with
\* those of the index that it does not hold
save_joining(on_disk, idx) ==
    [slug \in DOMAIN idx |->
        IF slug \notin DOMAIN on_disk THEN idx[slug]
        ELSE [idx[slug] EXCEPT
                !.versions = on_disk[slug].versions \o
                    SelectSeq(idx[slug].versions,
                              LAMBDA v : \A i \in 1..Len(on_disk[slug].versions) :
                                            on_disk[slug].versions[i] # v)]]

\* NotesApp::save: fs::write of the whole index, whatever index.json holds
save(on_disk, idx) == idx

\* the save a command ends with
SaveIndex ==
    /\ pc = "tosave"
    /\ diskIndex' = save(diskIndex, index)
    /\ pc' = "loaded"
    /\ last' = NoCall
    /\ UNCHANGED <<index, files, blobs, synced, daemonVars, pureVars>>

Save ==
    /\ SaveIndex
    /\ UNCHANGED deleted

\* what the save of a command makes of the history of deletions: the note
\* a delete removed goes in, the note a create added goes out
after_save(gone, call) ==
    IF call.res # "ok" \/ call.slug = None THEN gone
    ELSE IF call.op = "delete_note_by_title" THEN gone \cup {unwrap(call.slug)}
    ELSE IF call.op = "create_note" THEN gone \ {unwrap(call.slug)}
    ELSE gone

\* the save of a command, with the history of deletions kept
SaveRecorded ==
    /\ SaveIndex
    /\ deleted' = after_save(deleted, last)

\* the process ends: after its save, or on the error it propagated
Exit ==
    /\ pc \in {"loaded", "failed"}
    /\ pc' = "idle"
    /\ index' = Empty
    /\ synced' = {}
    /\ last' = NoCall
    /\ UNCHANGED <<diskIndex, files, blobs, daemonVars, pureVars, deleted>>

CreateNote(title, now) ==
    /\ pc = "loaded"
    /\ LET r == create_note(World(index, files, blobs), title, now)
       IN /\ Returned(r, {}, {})
          /\ last' = Call("create_note", None, Some(file_stem(r.val)), r.res, FALSE)

SnapshotIfChanged(slug) ==
    /\ pc = "loaded"
    /\ LET r == snapshot_if_changed(World(index, files, blobs), slug)
       IN /\ Returned(r, {slug}, {})
          /\ last' = Call("snapshot_if_changed", None, Some(slug), r.res,
                          r.res = "ok" /\ r.val)

\* whether the snapshot step a call starts with appends a version
Promotes(w, resolved) ==
    /\ resolved # None
    /\ LET s == snapshot_if_changed(w, unwrap(resolved))
       IN s.res = "ok" /\ s.val

OpenNote(identifier) ==
    /\ pc = "loaded"
    /\ \E resolved \in resolve_slug(index, identifier) :
         LET w == World(index, files, blobs)
             r == open_note(w, resolved)
         IN /\ Returned(r, {unwrap(resolved)}, {})
            /\ last' = Call("open_note", None, resolved, r.res,
                            Promotes(w, resolved))

Rollback(identifier, target_version) ==
    /\ pc = "loaded"
    /\ \E resolved \in resolve_slug(index, identifier) :
         LET w == World(index, files, blobs)
             r == rollback(w, resolved, target_version)
         IN /\ Returned(r, {}, {unwrap(resolved)})
            /\ last' = Call("rollback",
                            IF resolved = None THEN None ELSE target_version,
                            resolved, r.res, Promotes(w, resolved))

DeleteNoteByTitle(title) ==
    /\ pc = "loaded"
    /\ LET r == delete_note_by_title(World(index, files, blobs), title)
       IN /\ Returned(r, {}, {})
          /\ last' = Call("delete_note_by_title", None,
                          IF r.res = "ok" THEN Some(r.val) ELSE None, r.res, FALSE)

SnapshotAllChanges ==
    /\ pc = "loaded"
    /\ \E slugs \in KeyOrders(DOMAIN index) :
         LET r == snapshot_all_changes(World(index, files, blobs), slugs)
         IN /\ Returned(r, DOMAIN index, {})
            /\ last' = Call("snapshot_all_changes", None, None, r.res,
                            r.res = "ok" /\ r.val # <<>>)

\* The user saves the working copy from an editor, or removes the file.  A
\* write that falls between a call and the save or exit that follows it
\* leaves the files that the same write leaves right after them.
UserWrite(slug, bytes) ==
    /\ pc \in {"idle", "loaded"}
    /\ working_file(slug) \in DOMAIN files
    /\ files[working_file(slug)] # bytes
    /\ files' = Put(files, working_file(slug), bytes)
    /\ synced' = synced \ {slug}
    /\ UNCHANGED <<diskIndex, index, blobs, pc, last, daemonVars, pureVars, deleted>>

UserRemove(slug) ==
    /\ pc \in {"idle", "loaded"}
    /\ working_file(slug) \in DOMAIN files
    /\ files' = Remove(files, {working_file(slug)})
    /\ synced' = synced \ {slug}
    /\ UNCHANGED <<diskIndex, index, blobs, pc, last, daemonVars, pureVars, deleted>>

\* slugs of the notes on disk or in memory
KnownSlugs == (DOMAIN diskIndex) \cup (DOMAIN index)

Next ==
    \/ Load
    \/ Save
    \/ Exit
    \/ \E title \in Titles, now \in Stamps : CreateNote(title, now)
    \/ \E slug \in Identifiers : SnapshotIfChanged(slug)
    \/ \E identifier \in Identifiers : OpenNote(identifier)
    \/ \E identifier \in Identifiers, target \in Targets : Rollback(identifier, target)
    \/ \E title \in Identifiers : DeleteNoteByTitle(title)
    \/ SnapshotAllChanges
    \/ \E slug \in KnownSlugs, bytes \in Contents : UserWrite(slug, bytes)
    \/ \E slug \in KnownSlugs : UserRemove(slug)

Spec == Init /\ [][Next]_vars

(***************************************************************************)
(* delete_note_by_title on an index.json the program did not write itself. *)
(* load() accepts any map of keys to notes, so two notes can carry the     *)
(* same slug under different keys; create_note never writes such an index. *)
(***************************************************************************)
StoredKeys == {<<"a">>, <<"a", "-", "2">>, <<"z">>}

\* a note of one empty version, as index.json lists it
StoredNote(slug) ==
    [title |-> slug, slug |-> slug, current_version |-> first_version_number,
     versions |-> <<VersionMeta(first_version_number,
                                version_rel(slug, first_version_number),
                                hash_bytes(""))>>,
     working_hash |-> Some(hash_bytes("")),
     updated_at |-> 1]

InitStored ==
    /\ \E keys \in SUBSET StoredKeys :
         \E slugs \in [keys -> StoredKeys], bytes \in [keys -> Contents] :
            /\ diskIndex = [k \in keys |-> StoredNote(slugs[k])]
            /\ files = [f \in {working_file(k) : k \in keys} |-> bytes[file_stem(f)]]
            /\ blobs = [b \in {version_rel(slugs[k], first_version_number) : k \in keys}
                          |-> ""]
    /\ index = Empty
    /\ pc = "idle"
    /\ synced = {}
    /\ last = NoCall
    /\ deleted = {}
    /\ InitGuard
    /\ InitLoop
    /\ InitPass
    /\ InitPure

NextStored ==
    \/ Load
    \/ Save
    \/ Exit
    \/ \E title \in Identifiers : DeleteNoteByTitle(title)

SpecStored == InitStored /\ [][NextStored]_vars

\* The marker file and the processes around it, on a data root whose notes
\* stay as they are.
SpecGuard == Init /\ [][NextGuard]_vars

(***************************************************************************)
(* src/src/utils.rs: slugify on every string of a bounded alphabet: a      *)
(* lowercase letter, an uppercase letter, a digit, the two separators, two *)
(* whitespace characters, and a character that is none of these.           *)
(***************************************************************************)
SlugAlphabet == {"a", "B", "2", "-", "_", " ", "\t", "!"}

Inputs == UNION {[1..n -> SlugAlphabet] : n \in 0..MaxLen}

InitSlugify ==
    /\ arg \in Inputs
    /\ ret = <<>>
    /\ diskIndex = Empty
    /\ index = Empty
    /\ files = Empty
    /\ blobs = Empty
    /\ pc = "idle"
    /\ synced = {}
    /\ last = NoCall
    /\ deleted = {}
    /\ InitGuard
    /\ InitLoop
    /\ InitPass

\* slugify(title)
Slugify ==
    /\ ret = <<>>
    /\ ret' = <<slugify(arg)>>
    /\ UNCHANGED <<arg, appVars, daemonVars>>

\* slugify of what slugify returned
SlugifyAgain ==
    /\ Len(ret) = 1
    /\ ret' = Append(ret, slugify(ret[1]))
    /\ UNCHANGED <<arg, appVars, daemonVars>>

NextSlugify ==
    \/ Slugify
    \/ SlugifyAgain

SpecSlugify == InitSlugify /\ [][NextSlugify]_vars

\* The loop of run_daemon on a data root with the note "a", created with the
\* title "A" and saved.
InitWatcher ==
    /\ LET first == create_note(World(Empty, Empty, Empty), Some(<<"A">>), <<"7">>)
       IN /\ diskIndex = first.index
          /\ files = first.files
          /\ blobs = first.blobs
    /\ index = Empty
    /\ pc = "idle"
    /\ synced = {}
    /\ last = NoCall
    /\ deleted = {}
    /\ InitGuard
    /\ InitLoop
    /\ InitPass
    /\ InitPure

SpecWatcher == InitWatcher /\ [][NextWatcher]_vars

\* The watcher is a process of its own that the system keeps running: time
\* goes on, and each step the loop can take is taken.  recv_timeout returns
\* Timeout each time a cooldown has passed with nothing in the channel, even
\* if something is sent the moment after: hence the strong fairness of
\* Timeout.  What reaches the channel, and when its sending side is dropped,
\* is not the loop's to decide.
FairWatcher ==
    /\ WF_vars(\E d \in Delays : Tick(d))
    /\ WF_vars(ReceiveEvent)
    /\ WF_vars(ReceiveError)
    /\ SF_vars(Timeout)
    /\ WF_vars(\E result \in Results : SyncSnapshots(result))
    /\ WF_vars(Disconnected)

SpecWatcherFair == SpecWatcher /\ FairWatcher

\* A data root with the notes "a" and "a-2", each of one empty version.
InitWatcherTwo ==
    /\ LET first == create_note(World(Empty, Empty, Empty), Some(<<"A">>), <<"7">>)
           second == create_note(World(first.index, first.files, first.blobs),
                                 Some(<<"a", " ", "2">>), <<"7">>)
       IN /\ diskIndex = second.index
          /\ files = second.files
          /\ blobs = second.blobs
    /\ index = Empty
    /\ pc = "idle"
    /\ synced = {}
    /\ last = NoCall
    /\ deleted = {}
    /\ InitGuard
    /\ InitLoop
    /\ InitPass
    /\ InitPure

\* the loop with the user's edits as the only source of notifications
NextPasses ==
    \/ \E d \in Delays : Tick(d)
    \/ \E slug \in DOMAIN diskIndex, bytes \in Contents : WatchedWrite(slug, bytes)
    \/ \E slug \in DOMAIN diskIndex : WatchedRemove(slug)
    \/ ReceiveEvent
    \/ Timeout
    \/ \E result \in Results : SyncSnapshots(result)

\* The watcher over two notes: a pass can fail on one after the other.
SpecPasses == InitWatcherTwo /\ [][NextPasses]_vars

(***************************************************************************)
(* The commands on a file system whose calls can fail: the two removals of *)
(* delete_note_by_title.                                                   *)
(***************************************************************************)
Removals == {"remove_file", "remove_dir_all"}

\* delete_note_by_title returns the error of fs::remove_file, called if the
\* working file exists, or of fs::remove_dir_all, called if the versions
\* directory exists; main propagates it
DeleteNoteByTitleFails(title, at) ==
    /\ pc = "loaded"
    /\ Cardinality(title_matches(index, title)) = 1
    /\ LET w == World(index, files, blobs)
           slug == index[CHOOSE s \in title_matches(index, title) : TRUE].slug
       IN /\ slug \in DOMAIN index
          /\ at = "remove_file" => working_file(slug) \in DOMAIN files
          /\ at = "remove_dir_all" => blobs_of(w, slug) # {}
          /\ \E gone \in SUBSET blobs_of(w, slug) :
                /\ Returned(remove_note_failing(w, slug, at, gone), {}, {})
                /\ last' = Call("delete_note_by_title", None, Some(slug), "Io", FALSE)

NextFaults ==
    \/ Next
    \/ \E title \in Identifiers, at \in Removals : DeleteNoteByTitleFails(title, at)

SpecFaults == Init /\ [][NextFaults]_vars

(***************************************************************************)
(* src/src/daemon.rs, sync_snapshots beside a command of src/src/main.rs:  *)
(* two processes on one data root, each with a NotesApp of its own, and no *)
(* lock.  The steps of the pass are its load, its snapshot_all_changes and *)
(* its save; the command and the user act between them.                   *)
(***************************************************************************)
\* sync_snapshots: NotesApp::load
PassLoad ==
    /\ sync_pc = "idle"
    /\ sync_index' = diskIndex
    /\ sync_pc' = "loaded"
    /\ UNCHANGED <<appVars, guardVars, loopVars, pureVars>>

\* sync_snapshots: snapshot_all_changes; its error ends the pass unsaved
PassSnapshot ==
    /\ sync_pc = "loaded"
    /\ \E slugs \in KeyOrders(DOMAIN sync_index) :
         LET r == snapshot_all_changes(World(sync_index, files, blobs), slugs)
         IN /\ WithinBounds(r.index)
            /\ files' = r.files
            /\ blobs' = r.blobs
            /\ sync_index' = IF r.res = "ok" THEN r.index ELSE Empty
            /\ sync_pc' = IF r.res = "ok" THEN "tosave" ELSE "idle"
    /\ UNCHANGED <<diskIndex, index, pc, synced, last, guardVars, loopVars, pureVars, deleted>>

\* sync_snapshots: save, and the NotesApp is dropped
PassSave ==
    /\ sync_pc = "tosave"
    /\ diskIndex' = save(diskIndex, sync_index)
    /\ sync_index' = Empty
    /\ sync_pc' = "idle"
    /\ UNCHANGED <<index, files, blobs, pc, synced, last, guardVars, loopVars, pureVars, deleted>>

\* What the user writes while the two processes run: two writers can differ
\* on a version only if there are two contents that the last version does
\* not hold.
RaceContents == Contents \cup {"v3"}

NextRace ==
    \/ Load
    \/ Save
    \/ Exit
    \/ \E now \in Stamps : CreateNote(Some(<<"A">>), now)
    \/ OpenNote(<<"a">>)
    \/ \E bytes \in RaceContents : UserWrite(<<"a">>, bytes)
    \/ PassLoad
    \/ PassSnapshot
    \/ PassSave

\* A command and a synchronization pass on a data root with the note "a".
SpecRace == InitWatcher /\ [][NextRace]_vars

\* the commands that create and delete the note "a", beside a pass
NextStale ==
    \/ Load
    \/ SaveRecorded
    \/ Exit
    \/ \E now \in Stamps : CreateNote(Some(<<"A">>), now)
    \/ DeleteNoteByTitle(<<"a">>)
    \/ OpenNote(<<"a">>)
    \/ \E bytes \in Contents : UserWrite(<<"a">>, bytes)
    \/ PassLoad
    \/ PassSnapshot
    \/ PassSave

\* Creations and deletions of one note while synchronization passes run.
SpecStale == InitWatcher /\ [][NextStale]_vars

(***************************************************************************)
(* Properties.                                                             *)
(***************************************************************************)
\* the step is a call made by the process
CallStep == pc = "loaded" /\ pc' \in {"tosave", "failed"}

\* the step is a call of op
Calls(op) == CallStep /\ last'.op = op

\* the call the process has just returned from
Returns(op, res) == pc \in {"tosave", "failed"} /\ last.op = op /\ last.res = res

IsPrefix(s, t) == Len(s) <= Len(t) /\ \A i \in 1..Len(s) : s[i] = t[i]

LastOf(s) == s[Len(s)]

\* the bytes at a path, if the file exists
BlobAt(bl, path) == IF path \in DOMAIN bl THEN Some(bl[path]) ELSE None

WellNumbered(note) ==
    /\ Len(note.versions) >= 1
    /\ \A i \in 1..Len(note.versions) : note.versions[i].version = i
    /\ note.current_version = Len(note.versions)

\* C1: every note of the in-memory index and of index.json has at least one
\* VersionRecord, its versions are numbered 1..n in order without gaps or
\* duplicates, and current_version is n.
C1_VersionsNumbered ==
    /\ \A s \in DOMAIN index : WellNumbered(index[s])
    /\ \A s \in DOMAIN diskIndex : WellNumbered(diskIndex[s])

\* C1 witness: a rollback has returned on a note that now has three
\* versions, in an index from which a note was deleted earlier or not.
C1_Witness ==
    /\ Returns("rollback", "ok")
    /\ Len(index[unwrap(last.slug)].versions) = 3
    /\ Cardinality(DOMAIN diskIndex) >= 1

\* the working copy of slug holds bytes that differ from the last version
Pending(idx, fs, slug) ==
    /\ slug \in DOMAIN idx
    /\ working_file(slug) \in DOMAIN fs
    /\ hash_bytes(fs[working_file(slug)]) # LastOf(idx[slug].versions).hash

\* the call left the history of slug as it was
SameHistory(slug) ==
    /\ slug \in DOMAIN index'
    /\ index'[slug].versions = index[slug].versions
    /\ index'[slug].current_version = index[slug].current_version
    /\ blobs' = blobs

\* C2: snapshot_if_changed is idempotent.  A call on a note this process has
\* already snapshotted, with no write to the working copy in between, returns
\* false and appends nothing; and a call on a working copy that equals the
\* latest version returns false and leaves versions and current_version.
C2_SnapshotIdempotent ==
    [][Calls("snapshot_if_changed") =>
         LET slug == unwrap(last'.slug)
         IN /\ last'.again =>
                 /\ last'.res = "ok"
                 /\ ~last'.changed
                 /\ SameHistory(slug)
            /\ (/\ slug \in DOMAIN index
                /\ working_file(slug) \in DOMAIN files
                /\ ~Pending(index, files, slug)) =>
                 /\ last'.res = "ok"
                 /\ ~last'.changed
                 /\ SameHistory(slug)]_vars

\* C2 witness: a second snapshot_if_changed, on a note whose working copy a
\* first one promoted to version 2, has returned false.
C2_Witness ==
    /\ Returns("snapshot_if_changed", "ok")
    /\ last.again
    /\ ~last.changed
    /\ index[unwrap(last.slug)].current_version = 2
    /\ BlobAt(files, working_file(unwrap(last.slug))) = Some("v2")

\* C3: snapshot_if_changed on a working copy holding bytes X whose hash is
\* not that of the last VersionRecord returns true and appends exactly one
\* record, whose blob is X and whose hash is hash(X); current_version grows
\* by exactly 1.
C3_SnapshotRoundTrip ==
    [][\A slug \in DOMAIN index :
         (/\ Calls("snapshot_if_changed")
          /\ last'.slug = Some(slug)
          /\ Pending(index, files, slug)) =>
            LET X == files[working_file(slug)]
                rec == LastOf(index'[slug].versions)
            IN /\ last'.res = "ok"
               /\ last'.changed
               /\ index'[slug].versions = Append(index[slug].versions, rec)
               /\ rec.hash = hash_bytes(X)
               /\ rec.path \in DOMAIN blobs'
               /\ blobs'[rec.path] = X
               /\ index'[slug].current_version = index[slug].current_version + 1
               /\ rec.version = index'[slug].current_version]_vars

\* C3 witness: snapshot_if_changed has promoted a working copy holding "v2"
\* and the blob of the new version holds "v2".
C3_Witness ==
    /\ Returns("snapshot_if_changed", "ok")
    /\ last.changed
    /\ blobs[LastOf(index[unwrap(last.slug)].versions).path] = "v2"
    /\ LastOf(index[unwrap(last.slug)].versions).hash = hash_bytes("v2")

\* the records of idx0 that idx1 no longer has in place, if they are records
\* of the note that a delete_note_by_title of this step or the last removed
Kept(idx0, idx1, call) ==
    \A slug \in DOMAIN idx0 :
        \/ /\ slug \in DOMAIN idx1
           /\ IsPrefix(idx0[slug].versions, idx1[slug].versions)
        \/ /\ call.op = "delete_note_by_title"
           /\ call.res = "ok"
           /\ call.slug = Some(slug)

\* C4: history is append-only.  Every call (snapshot_if_changed, rollback,
\* open_note, snapshot_all_changes, create_note) leaves the VersionRecords of
\* every note in place, in order, with their version, path and hash, and so
\* does every rewrite of index.json; only delete_note_by_title of a note
\* makes its records disappear.
C4_AppendOnly ==
    [][/\ CallStep => Kept(index, index', last')
       /\ Kept(diskIndex, diskIndex', last)]_vars

\* C4 witness: a rollback on a note with pending edits has returned, having
\* appended two records after the one the note had.
C4_Witness ==
    /\ Returns("rollback", "ok")
    /\ last.changed
    /\ Len(index[unwrap(last.slug)].versions) = 3
    /\ Len(diskIndex[unwrap(last.slug)].versions) = 1

\* the blob of every record of the note holds what the record's hash names
Intact(note, bl) ==
    \A i \in 1..Len(note.versions) :
        BlobAt(bl, note.versions[i].path) # None
        /\ hash_bytes(bl[note.versions[i].path]) = note.versions[i].hash

\* the step writes to no blob of the note
Untouched(note) ==
    \A i \in 1..Len(note.versions) :
        BlobAt(blobs', note.versions[i].path) = BlobAt(blobs, note.versions[i].path)

Deleted(call, slug) ==
    call.op = "delete_note_by_title" /\ call.res = "ok" /\ call.slug = Some(slug)

BlobsMatchRecords ==
    /\ \A slug \in DOMAIN index : Intact(index[slug], blobs)
    /\ \A slug \in DOMAIN diskIndex :
         Deleted(last, slug) \/ Intact(diskIndex[slug], blobs)

BlobsWrittenOnce ==
    /\ \A slug \in DOMAIN index : Deleted(last', slug) \/ Untouched(index[slug])
    /\ \A slug \in DOMAIN diskIndex :
         Deleted(last', slug) \/ Deleted(last, slug) \/ Untouched(diskIndex[slug])

\* C5: the blob of a VersionRecord never changes after it is written.  In
\* every state the blob at the path of every record, in memory and in
\* index.json, has the record's hash, and no step writes to that path,
\* except the delete of the record's note.
C5_BlobsImmutable == []BlobsMatchRecords /\ [][BlobsWrittenOnce]_vars

\* C5 witness: a note has three versions whose blobs differ, after a
\* snapshot of "v2" and a rollback to version 1.
C5_Witness ==
    /\ Returns("rollback", "ok")
    /\ Cardinality(DOMAIN index) = 1
    /\ \E slug \in DOMAIN index :
         /\ Len(index[slug].versions) = 3
         /\ blobs[index[slug].versions[2].path] = "v2"
         /\ blobs[index[slug].versions[3].path] = ""

\* the number of records the snapshot step of a call on slug appends
PendingCount(slug) == IF Pending(index, files, slug) THEN 1 ELSE 0

\* C6: rollback is copy-forward.  A successful rollback(identifier, Some(t))
\* on a note whose current version is n after the snapshot step appends
\* exactly one record, with version n + 1 and with the blob and hash of
\* version t, sets current_version to n + 1 and writes the bytes of version
\* t to the working copy; versions 1..n stay.  Rolling a note with versions
\* "" and "v2" back to 1 gives version 3 with an empty blob and an empty
\* working copy.
C6_RollbackCopiesForward ==
    [][\A slug \in DOMAIN index, t \in 0..MaxRecords :
         (/\ Calls("rollback")
          /\ last'.res = "ok"
          /\ last'.slug = Some(slug)
          /\ last'.target = Some(t)) =>
            LET before == index[slug].versions
                after == index'[slug].versions
                n == Len(before) + PendingCount(slug)
                rec == LastOf(after)
            IN /\ Len(after) = n + 1
               /\ IsPrefix(before, after)
               /\ \A i \in 1..Len(before) :
                    BlobAt(blobs', before[i].path) = BlobAt(blobs, before[i].path)
               /\ t \in 1..n
               /\ rec.version = n + 1
               /\ rec.hash = after[t].hash
               /\ blobs'[rec.path] = blobs'[after[t].path]
               /\ index'[slug].current_version = n + 1
               /\ files'[working_file(slug)] = blobs'[after[t].path]
               /\ (t = 1 /\ n = 2) =>
                    blobs'[rec.path] = "" /\ files'[working_file(slug)] = ""]_vars

\* C6 witness: a note with versions "" and "v2" and no pending edits has
\* been rolled back to version 1: version 3 and the working copy are empty.
C6_Witness ==
    /\ Returns("rollback", "ok")
    /\ last.target = Some(1)
    /\ ~last.changed
    /\ LET slug == unwrap(last.slug)
       IN /\ Len(index[slug].versions) = 3
          /\ index[slug].versions[2].hash = hash_bytes("v2")
          /\ blobs[index[slug].versions[3].path] = ""
          /\ BlobAt(files, working_file(slug)) = Some("")

\* C7: rollback never loses pending edits.  When the working copy differs
\* from the latest version n and rollback succeeds, the working-copy bytes
\* are recorded as version n + 1 and the rollback copy is version n + 2.
C7_RollbackKeepsPendingEdits ==
    [][\A slug \in DOMAIN index :
         (/\ Calls("rollback")
          /\ last'.res = "ok"
          /\ last'.slug = Some(slug)
          /\ Pending(index, files, slug)) =>
            LET before == index[slug].versions
                after == index'[slug].versions
                n == Len(before)
                X == files[working_file(slug)]
            IN /\ Len(after) = n + 2
               /\ IsPrefix(before, after)
               /\ after[n + 1].version = n + 1
               /\ after[n + 1].hash = hash_bytes(X)
               /\ BlobAt(blobs', after[n + 1].path) = Some(X)
               /\ after[n + 2].version = n + 2
               /\ index'[slug].current_version = n + 2]_vars

\* C7 witness: rollback to version 1 has succeeded on a note whose working
\* copy held the unrecorded bytes "v2": they are version 2, the copy of
\* version 1 is version 3 and the working copy.
C7_Witness ==
    /\ Returns("rollback", "ok")
    /\ last.changed
    /\ LET slug == unwrap(last.slug)
       IN /\ Len(diskIndex[slug].versions) = 1
          /\ Len(index[slug].versions) = 3
          /\ blobs[index[slug].versions[2].path] = "v2"
          /\ BlobAt(files, working_file(slug)) = Some("")

\* a failed rollback on slug appended no rollback record (only the record of
\* the pending edits, if any), overwrote no working copy and left index.json
RollbackFailedCleanly(slug) ==
    /\ Len(index'[slug].versions) = Len(index[slug].versions) + PendingCount(slug)
    /\ IsPrefix(index[slug].versions, index'[slug].versions)
    /\ Pending(index, files, slug) =>
         LastOf(index'[slug].versions).hash = hash_bytes(files[working_file(slug)])
    /\ \A f \in DOMAIN files : f \in DOMAIN files' /\ files'[f] = files[f]
    /\ diskIndex' = diskIndex

\* a process that failed in rollback does not rewrite index.json
FailedRollbackNotSaved ==
    (pc = "failed" /\ last.op = "rollback") => diskIndex' = diskIndex

\* C8 as stated: the error cases judged on the note as it is when rollback
\* is called.
C8_RollbackErrorsAtCall ==
    [][/\ Calls("rollback") =>
            /\ last'.slug = None =>
                 /\ last'.res = "NotFound"
                 /\ index' = index /\ files' = files /\ blobs' = blobs
                 /\ diskIndex' = diskIndex
            /\ \A slug \in DOMAIN index : last'.slug = Some(slug) =>
                 /\ last'.target = Some(0) => last'.res = "NoPrevious"
                 /\ (last'.target = None /\ index[slug].current_version = 1) =>
                      last'.res = "NoPrevious"
                 /\ (/\ last'.target \notin {None, Some(0)}
                     /\ find_version(index[slug].versions, unwrap(last'.target)) = None) =>
                      last'.res = "NotFound"
                 /\ last'.res # "ok" => RollbackFailedCleanly(slug)
       /\ FailedRollbackNotSaved]_vars

\* C8, amended: the error cases judged after the snapshot step of rollback.
\* Rollback with target 0, or with no target on a note whose current version
\* is 1 and whose working copy has no pending edits, fails with "no previous
\* version"; rollback to a version number that the note does not have once
\* its pending edits are recorded fails with not-found; an identifier that
\* resolves to no note fails with not-found.  A failed rollback appends no
\* rollback record, overwrites no working copy and index.json is not
\* rewritten.
C8_RollbackErrors ==
    [][/\ Calls("rollback") =>
            /\ last'.slug = None =>
                 /\ last'.res = "NotFound"
                 /\ index' = index /\ files' = files /\ blobs' = blobs
                 /\ diskIndex' = diskIndex
            /\ \A slug \in DOMAIN index : last'.slug = Some(slug) =>
                 LET n == index[slug].current_version + PendingCount(slug)
                 IN /\ last'.target = Some(0) => last'.res = "NoPrevious"
                    /\ (last'.target = None /\ n = 1) => last'.res = "NoPrevious"
                    /\ (/\ last'.target \notin {None, Some(0)}
                        /\ unwrap(last'.target) > n) => last'.res = "NotFound"
                    /\ last'.res # "ok" => RollbackFailedCleanly(slug)
       /\ FailedRollbackNotSaved]_vars

\* C8 witness: rollback without a target has failed with "no previous
\* version" on a note at version 1 whose working copy had no pending edits.
C8_Witness ==
    /\ Returns("rollback", "NoPrevious")
    /\ last.slug # None
    /\ last.target = None
    /\ ~last.changed
    /\ index[unwrap(last.slug)].current_version = 1
    /\ diskIndex = index

\* C9: create_note leaves, for the new note, exactly one VersionRecord with
\* version 1 and an empty blob, current_version 1, an empty working copy and
\* working_hash equal to the hash of empty bytes, the hash of version 1.
C9_CreateNote ==
    [][Calls("create_note") =>
         LET slug == unwrap(last'.slug)
             note == index'[slug]
         IN /\ last'.res = "ok"
            /\ Len(note.versions) = 1
            /\ note.versions[1].version = 1
            /\ BlobAt(blobs', note.versions[1].path) = Some("")
            /\ note.current_version = 1
            /\ BlobAt(files', working_file(slug)) = Some("")
            /\ note.working_hash = Some(hash_bytes(""))
            /\ note.versions[1].hash = hash_bytes("")]_vars

\* C9 witness: create_note has returned the note "a", at version 1 with an
\* empty working copy, next to an older note that has two versions.
C9_Witness ==
    /\ Returns("create_note", "ok")
    /\ last.slug = Some(<<"a">>)
    /\ index[<<"a">>].current_version = 1
    /\ BlobAt(files, working_file(<<"a">>)) = Some("")
    /\ \E other \in DOMAIN index : index[other].current_version = 2

Suffixed(base, k) == base \o <<"-">> \o to_string(k)

\* C10: create_note gives the note a slug that was not a key of the index:
\* slugify(title), or slugify(title)-k for the smallest k >= 2 that is free;
\* it adds exactly one note and leaves the record, the blobs and the working
\* copy of every other note.
C10_CreateUniqueSlug ==
    [][Calls("create_note") =>
         LET slug == unwrap(last'.slug)
             base == slugify(index'[slug].title)
         IN /\ slug \notin DOMAIN index
            /\ \/ slug = base
               \/ \E k \in 2..(Cardinality(DOMAIN index) + 1) :
                    /\ slug = Suffixed(base, k)
                    /\ base \in DOMAIN index
                    /\ \A j \in 2..(k - 1) : Suffixed(base, j) \in DOMAIN index
            /\ DOMAIN index' = (DOMAIN index) \cup {slug}
            /\ index'[slug].slug = slug
            /\ \A other \in DOMAIN index :
                 /\ index'[other] = index[other]
                 /\ Untouched(index[other])
                 /\ BlobAt(files', working_file(other)) = BlobAt(files, working_file(other))]_vars

\* C10 witness: with the slugs "a" and "a-2" taken, a note titled "A" has
\* been created under "a-3".
C10_Witness ==
    /\ Returns("create_note", "ok")
    /\ last.slug = Some(<<"a", "-", "3">>)
    /\ index[<<"a", "-", "3">>].title = <<"A">>
    /\ {<<"a">>, <<"a", "-", "2">>} \subseteq DOMAIN index

\* C11: a successful delete removes the note's record from the index, its
\* working-copy file and every blob under its versions directory, and leaves
\* the record, the blobs and the working copy of every other note as they
\* were.
C11_DeleteRemovesNote ==
    [][(Calls("delete_note_by_title") /\ last'.res = "ok") =>
         LET slug == unwrap(last'.slug)
         IN /\ slug \in DOMAIN index
            /\ slug \notin DOMAIN index'
            /\ working_file(slug) \notin DOMAIN files'
            /\ \A p \in DOMAIN blobs' : versions_dir(p) # slug
            /\ \A i \in 1..Len(index[slug].versions) :
                 BlobAt(blobs', index[slug].versions[i].path) = None
            /\ \A other \in DOMAIN index \ {slug} :
                 /\ other \in DOMAIN index'
                 /\ index'[other] = index[other]
            /\ DOMAIN index' = DOMAIN index \ {slug}
            /\ \A p \in DOMAIN blobs : versions_dir(p) # slug =>
                 BlobAt(blobs', p) = Some(blobs[p])
            /\ \A f \in DOMAIN files \ {working_file(slug)} :
                 BlobAt(files', f) = Some(files[f])
            /\ DOMAIN files' \subseteq DOMAIN files]_vars

\* C11 witness: a note with two versions has been deleted, index.json still
\* lists it, and another note is left in the index with its blob and its
\* working copy.
C11_Witness ==
    /\ Returns("delete_note_by_title", "ok")
    /\ Len(diskIndex[unwrap(last.slug)].versions) = 2
    /\ \E other \in DOMAIN index :
         /\ Intact(index[other], blobs)
         /\ BlobAt(files, working_file(other)) = Some("v2")
    /\ \A p \in DOMAIN blobs : versions_dir(p) # unwrap(last.slug)

\* the notes whose title equals the identifier case-insensitively
TitledLike(idx, identifier) ==
    {s \in DOMAIN idx : to_lowercase(idx[s].title) = to_lowercase(identifier)}

\* C12: delete resolves its identifier as open, rollback and versions do.
\* A delete given the exact slug of a note succeeds and deletes that note,
\* and so does a delete given an identifier that equals the title of exactly
\* one note case-insensitively (deleting the note titled "A" by "A").
C12_DeleteResolvesLikeOpen ==
    [][\A title \in Identifiers :
         (/\ DeleteNoteByTitle(title)
          /\ \/ title \in DOMAIN index
             \/ Cardinality(TitledLike(index, title)) = 1) =>
            /\ last'.res = "ok"
            /\ \/ last'.slug = Some(title)
               \/ unwrap(last'.slug) \in TitledLike(index, title)]_vars

\* the notes whose slug is the identifier
SlugIs(idx, identifier) == {k \in DOMAIN idx : idx[k].slug = identifier}

\* C13: a delete by an identifier that is the slug of more than one note
\* fails with the ambiguity error and deletes nothing: the index, the working
\* copies and the blobs stay, and index.json is not rewritten.
C13_AmbiguousDeleteFails ==
    [][/\ \A title \in Identifiers :
            (DeleteNoteByTitle(title) /\ Cardinality(SlugIs(index, title)) > 1) =>
               /\ last'.res = "Ambiguous"
               /\ index' = index /\ files' = files /\ blobs' = blobs
               /\ diskIndex' = diskIndex
       /\ (pc = "failed" /\ last.res = "Ambiguous") => diskIndex' = diskIndex]_vars

\* C13 witness: a delete has failed with the ambiguity error on an index of
\* two notes with the same slug, both still on disk with their working
\* copies.
C13_Witness ==
    /\ Returns("delete_note_by_title", "Ambiguous")
    /\ Cardinality(DOMAIN index) = 2
    /\ \A k \in DOMAIN index : index[k].slug = <<"a">>
    /\ diskIndex = index
    /\ Cardinality(DOMAIN files) = 2
    /\ BlobAt(blobs, version_rel(<<"a">>, 1)) = Some("")

\* the notes whose slug equals the identifier case-insensitively
SlugLike(idx, identifier) ==
    {s \in DOMAIN idx : to_lowercase(idx[s].slug) = to_lowercase(identifier)}

\* C14: identifier resolution is ordered and does not depend on the order in
\* which the map is iterated.  For every identifier resolve_slug has one
\* possible result on a given index: the note with that exact slug, or else a
\* note whose title equals the identifier case-insensitively, or else a note
\* whose slug equals it case-insensitively, or else none.
C14_ResolutionOrdered ==
    \A identifier \in Identifiers :
        LET found == resolve_slug(index, identifier)
        IN /\ Cardinality(found) = 1
           /\ identifier \in DOMAIN index => found = {Some(identifier)}
           /\ (identifier \notin DOMAIN index /\ TitledLike(index, identifier) # {}) =>
                found \subseteq {Some(s) : s \in TitledLike(index, identifier)}
           /\ (/\ identifier \notin DOMAIN index
               /\ TitledLike(index, identifier) = {}
               /\ SlugLike(index, identifier) # {}) =>
                found \subseteq {Some(s) : s \in SlugLike(index, identifier)}
           /\ (/\ identifier \notin DOMAIN index
               /\ TitledLike(index, identifier) = {}
               /\ SlugLike(index, identifier) = {}) => found = {None}

\* C15: at most one watcher process is active on the data root at any time,
\* whatever the interleaving of commands in ensure_daemon_running and of
\* `notes daemon` processes started directly or by the service manager.
C15_OneWatcher == Cardinality(running) <= 1

\* C15, amended: at most one watcher process exists as long as every watcher
\* was spawned by ensure_daemon_running and no command entered
\* ensure_daemon_running while another command was inside it or while a
\* spawned watcher had not yet written its process id.
C15_OneWatcherWhenGuarded == guarded => Cardinality(alive) <= 1

\* C15 witness: with every watcher spawned by a command on its own, a second
\* watcher runs and is named by the marker after the first one has died.
C15_Witness ==
    /\ guarded
    /\ running = {2}
    /\ starting = {}
    /\ marker = Some(2)

\* command c leaves position where in this step
Leaves(c, where) == cmd[c].pc = where /\ cmd'[c].pc # where

\* C16: staleness cleanup.  When the process id read from the marker is not
\* that of a live process, daemon_running removes the marker and reports "not
\* running", which takes ensure_daemon_running to the spawn exactly as an
\* absent marker does; the marker is removed before the new watcher is
\* spawned, and the call does not return without spawning one.
C16_StaleMarkerCleanup ==
    [][\A c \in Commands :
         /\ (Leaves(c, "kill") /\ unwrap(cmd[c].pid) \notin alive) =>
              /\ cmd'[c].probe = Some("ESRCH")
              /\ cmd'[c].pc = "remove"
         /\ Leaves(c, "remove") =>
              /\ marker' = None
              /\ cmd'[c].pc = "spawn"
              /\ starting' = starting
         /\ (Leaves(c, "exists") /\ marker = None) =>
              /\ cmd'[c].pc = "spawn"
              /\ marker' = None
         /\ (Leaves(c, "spawn") /\ cmd[c].probe = Some("ESRCH")) =>
              /\ cmd[c].removed
              /\ nextPid \notin alive
              /\ starting' = starting \cup {nextPid}
              /\ cmd'[c].pc = "returned"
         /\ (cmd[c].probe = Some("ESRCH") /\ cmd'[c].pc \in {"returned", "idle"}) =>
              cmd[c].pc \in {"spawn", "returned"}]_vars

\* C16 witness: a command whose probe found the marker's process dead has
\* removed the marker and spawned a watcher, which has not yet written its
\* own process id.
C16_Witness ==
    \E c \in Commands :
        /\ cmd[c].pc = "returned"
        /\ cmd[c].probe = Some("ESRCH")
        /\ cmd[c].removed
        /\ ~cmd[c].live
        /\ marker = None
        /\ nextPid - 1 \in starting
        /\ unwrap(cmd[c].pid) \notin alive

\* C17: when the marker holds the process id of a live process,
\* ensure_daemon_running spawns no watcher and leaves the marker as it is,
\* whatever the probe of that process gives: the call returns after the
\* probe, and no call that probed a live process reaches the spawn.
C17_LiveMarkerNoSpawn ==
    [][\A c \in Commands :
         /\ (Leaves(c, "kill") /\ unwrap(cmd[c].pid) \in alive) =>
              /\ cmd'[c].pc = "returned"
              /\ marker' = marker
         /\ Leaves(c, "spawn") => ~cmd[c].live]_vars

\* C18: the qualifying notifications of one burst, each sent less than a
\* cooldown after the one before, are followed by at most one synchronization
\* pass, and a pass begins only when the last qualifying notification was
\* sent a cooldown ago or more, that is after the burst has ended.
C18_Debounce ==
    [][/\ passes' <= 1
       /\ (loop = "recv" /\ loop' = "sync") => quiet >= cooldown]_vars

\* a burst of two notifications or more has had its one pass
C18_Witness ==
    /\ burst >= 2
    /\ passes = 1
    /\ loop = "recv"
    /\ outcome = "ok"
    /\ ~pending

\* C19: whenever the flag is set and the last qualifying notification was
\* sent a cooldown ago or more, a synchronization pass eventually begins,
\* unless another qualifying notification is sent or the channel is closed
\* first; notifications of the other kinds do not prevent it.
C19_BoundedStaleness ==
    (pending /\ quiet >= cooldown) ~> (loop = "sync" \/ quiet < cooldown \/ ~connected)

\* C20: after a watch error is received, and after a synchronization pass
\* that ends with whichever result, errors included, the loop is again at
\* recv_timeout; the loop ends only from recv_timeout, with the channel
\* empty and its sending side dropped.
C20_ErrorsDoNotEndLoop ==
    [][/\ (loop = "recv" /\ rx # <<>> /\ Head(rx) = "error" /\ rx' = Tail(rx))
          => loop' = "recv"
       /\ (loop = "sync" /\ loop' # "sync") => loop' = "recv"
       /\ (loop # "ended" /\ loop' = "ended")
          => (loop = "recv" /\ rx = <<>> /\ ~connected)]_vars

\* a pass has failed on save, and the loop waits for and receives a
\* notification sent after it
C20_Witness ==
    /\ outcome = "save"
    /\ loop = "recv"
    /\ pending
    /\ last_event = 0
    /\ connected

\* C27: a synchronization pass begins only on a timeout of recv_timeout with
\* the flag set, the flag is cleared when the pass ends, and the flag is set
\* only by receiving a qualifying notification.  At least one qualifying
\* notification was received since the pass before began, so there are never
\* more passes than qualifying notifications received.
C27_PassNeedsEvent ==
    [][/\ (loop = "recv" /\ loop' = "sync")
          => (pending /\ rx = <<>> /\ waited >= cooldown /\ received >= 1)
       /\ (loop = "sync" /\ loop' # "sync") => ~pending'
       /\ (~pending /\ pending')
          => (loop = "recv" /\ rx # <<>> /\ Head(rx) = "md" /\ rx' = Tail(rx))]_vars

\* a second pass has begun after one that ended well
C27_Witness ==
    /\ loop = "sync"
    /\ outcome = "ok"
    /\ pending
    /\ received = 0

\* C30: a watcher process enters its loop only from its start, and by the
\* step that writes its own process id to the marker, whatever the marker
\* held: a second watcher started while another is alive overwrites the
\* marker with its own id.
C30_WritesPidFirst ==
    [][\A p \in 1..(MaxPids + 1) :
          (p \notin running /\ p \in running')
             => (p \in starting /\ marker' = Some(p))]_vars

\* the second watcher has written its id over that of the first, which is
\* still running
C30_Witness ==
    /\ running = {1, 2}
    /\ marker = Some(2)
    /\ starting = {}

\* the places of s that hold an ASCII alphanumeric, in order
AlnumAt(s) == SelectSeq([i \in 1..Len(s) |-> i], LAMBDA i : is_ascii_alphanumeric(s[i]))

\* s without the characters slugify passes over: those that are neither
\* alphanumeric nor whitespace, hyphen or underscore
Sifted(s) ==
    SelectSeq(s, LAMBDA c : is_ascii_alphanumeric(c) \/ is_whitespace(c) \/ c \in {"-", "_"})

\* C26: the slug of every string is not empty, holds only lowercase ASCII
\* letters, digits and hyphens, no two hyphens in a row and no hyphen at its
\* end; its alphanumerics are those of the string, lowercased and in order,
\* and two that follow each other have exactly one hyphen between them if a
\* run of whitespace, hyphens and underscores lies between them in the string
\* and nothing otherwise; a string without ASCII alphanumeric gives "note";
\* and the slug of a slug is that slug.
C26_Slugify ==
    /\ Len(ret) >= 1 =>
         LET slug == ret[1]
             from == Sifted(arg)
             a == AlnumAt(from)
             b == AlnumAt(slug)
         IN /\ slug # <<>>
            /\ \A i \in 1..Len(slug) :
                  \/ slug[i] \in LowerLetters
                  \/ \E d \in 1..10 : DigitChars[d] = slug[i]
                  \/ slug[i] = "-"
            /\ \A i \in 1..(Len(slug) - 1) : ~(slug[i] = "-" /\ slug[i + 1] = "-")
            /\ ~ends_with(slug, "-")
            /\ IF a = <<>> THEN slug = <<"n", "o", "t", "e">>
               ELSE /\ Len(b) = Len(a)
                    /\ \A k \in 1..Len(a) : slug[b[k]] = to_ascii_lowercase(from[a[k]])
                    /\ \A k \in 1..(Len(a) - 1) :
                          b[k + 1] - b[k] = IF a[k + 1] - a[k] > 1 THEN 2 ELSE 1
    /\ Len(ret) = 2 => ret[2] = ret[1]

\* "a -B" has become "a-b", and "a-b" has stayed "a-b"
C26_Witness ==
    /\ arg = <<"a", " ", "-", "B">>
    /\ ret = <<(<<"a", "-", "b">>), (<<"a", "-", "b">>)>>

\* C25: only adjacency is deduplicated.  snapshot_if_changed on an existing
\* working copy appends a record exactly when the hash of the working copy
\* is not that of the last VersionRecord; when the working copy holds the
\* bytes of an earlier version that is not the last, the call appends a
\* record with that hash, at a path no earlier record has, and writes the
\* bytes to the blob at that path.
C25_AdjacentDedupOnly ==
    [][\A slug \in DOMAIN index :
         (/\ Calls("snapshot_if_changed")
          /\ last'.slug = Some(slug)
          /\ working_file(slug) \in DOMAIN files) =>
            LET X == files[working_file(slug)]
                before == index[slug].versions
                after == index'[slug].versions
                n == Len(before)
            IN /\ last'.res = "ok"
               /\ last'.changed <=> (hash_bytes(X) # before[n].hash)
               /\ ~last'.changed => after = before
               /\ (/\ hash_bytes(X) # before[n].hash
                   /\ \E i \in 1..(n - 1) : before[i].hash = hash_bytes(X)) =>
                     /\ Len(after) = n + 1
                     /\ IsPrefix(before, after)
                     /\ after[n + 1].hash = hash_bytes(X)
                     /\ \A i \in 1..n : before[i].path # after[n + 1].path
                     /\ BlobAt(blobs', after[n + 1].path) = Some(X)]_vars

\* snapshot_if_changed has recorded, as version 3, bytes that version 1
\* holds already and version 2 does not
C25_Witness ==
    /\ Returns("snapshot_if_changed", "ok")
    /\ last.changed
    /\ LET versions == index[unwrap(last.slug)].versions
       IN /\ Len(versions) = 3
          /\ versions[3].hash = versions[1].hash
          /\ versions[3].hash # versions[2].hash
          /\ versions[3].path # versions[1].path
          /\ BlobAt(blobs, versions[3].path) = BlobAt(blobs, versions[1].path)

\* C29: snapshot_if_changed on a note whose working file is missing writes
\* the file anew with the bytes of the VersionRecord that current_version
\* names, returns false, and leaves the records and the blobs as they were.
C29_MissingWorkingCopy ==
    [][\A slug \in DOMAIN index :
         (/\ Calls("snapshot_if_changed")
          /\ last'.slug = Some(slug)
          /\ working_file(slug) \notin DOMAIN files) =>
            LET note == index[slug]
                current == find_version(note.versions, note.current_version)
            IN /\ last'.res = "ok"
               /\ ~last'.changed
               /\ current # None
               /\ BlobAt(files', working_file(slug)) = BlobAt(blobs, unwrap(current).path)
               /\ BlobAt(files', working_file(slug)) # None
               /\ index'[slug].versions = note.versions
               /\ index'[slug].current_version = note.current_version
               /\ blobs' = blobs]_vars

\* snapshot_if_changed has returned false on a note of two versions whose
\* working file was missing, and the file holds the bytes of version 2
C29_Witness ==
    /\ Returns("snapshot_if_changed", "ok")
    /\ last.missing
    /\ ~last.changed
    /\ LET slug == unwrap(last.slug)
       IN /\ Len(index[slug].versions) = 2
          /\ BlobAt(blobs, index[slug].versions[2].path) = Some("v2")
          /\ BlobAt(files, working_file(slug)) = Some("v2")

\* C28: rollback without a target takes current_version - 1 after its
\* snapshot step.  On a working copy with pending edits it succeeds and the
\* working copy ends with the bytes of the version that was the latest
\* before the call; with no pending edits, on a note of two versions or
\* more, it succeeds and the working copy ends with the bytes of the version
\* before the latest.
C28_RollbackDefaultTarget ==
    [][\A slug \in DOMAIN index :
         (/\ Calls("rollback")
          /\ last'.slug = Some(slug)
          /\ last'.target = None) =>
            LET versions == index[slug].versions
                n == Len(versions)
            IN /\ Pending(index, files, slug) =>
                    /\ last'.res = "ok"
                    /\ BlobAt(files', working_file(slug)) = BlobAt(blobs, versions[n].path)
                    /\ BlobAt(files', working_file(slug)) # None
               /\ (~Pending(index, files, slug) /\ n >= 2) =>
                    /\ last'.res = "ok"
                    /\ BlobAt(files', working_file(slug))
                         = BlobAt(blobs, versions[n - 1].path)
                    /\ BlobAt(files', working_file(slug)) # None]_vars

\* rollback without a target has succeeded on a note of one version, "",
\* whose working copy held the unrecorded bytes "v2": the working copy holds
\* "" again, and "v2" is version 2
C28_Witness ==
    /\ Returns("rollback", "ok")
    /\ last.target = None
    /\ last.changed
    /\ LET slug == unwrap(last.slug)
       IN /\ Len(index[slug].versions) = 3
          /\ BlobAt(blobs, index[slug].versions[1].path) = Some("")
          /\ BlobAt(blobs, index[slug].versions[2].path) = Some("v2")
          /\ BlobAt(files, working_file(slug)) = Some("")

\* the working copy of slug exists and holds the bytes of the blob of the
\* last VersionRecord that idx has for slug
LatestIsWorkingCopy(idx, slug) ==
    /\ slug \in DOMAIN idx
    /\ BlobAt(blobs, LastOf(idx[slug].versions).path) = BlobAt(files, working_file(slug))
    /\ BlobAt(files, working_file(slug)) # None

\* C24: when open_note has succeeded, the last VersionRecord of the note it
\* resolved to holds the bytes of the working copy; when the
\* snapshot_all_changes of list, versions or search has succeeded, that of
\* every note does; and the save that follows writes these records to
\* index.json.
C24_SnapshotBeforeRead ==
    /\ [](/\ Returns("open_note", "ok") => LatestIsWorkingCopy(index, unwrap(last.slug))
          /\ Returns("snapshot_all_changes", "ok") =>
               \A slug \in DOMAIN index : LatestIsWorkingCopy(index, slug))
    /\ [][/\ (Returns("open_note", "ok") /\ pc' = "loaded") =>
               LatestIsWorkingCopy(diskIndex', unwrap(last.slug))
          /\ (Returns("snapshot_all_changes", "ok") /\ pc' = "loaded") =>
               /\ DOMAIN diskIndex' = DOMAIN index
               /\ \A slug \in DOMAIN index : LatestIsWorkingCopy(diskIndex', slug)]_vars

\* snapshot_all_changes has recorded the bytes "v2", written to the working
\* copy of one of two notes since index.json was saved
C24_Witness ==
    /\ Returns("snapshot_all_changes", "ok")
    /\ last.changed
    /\ Cardinality(DOMAIN index) = 2
    /\ \E slug \in DOMAIN index :
         /\ BlobAt(files, working_file(slug)) = Some("v2")
         /\ Len(diskIndex[slug].versions) = 1
         /\ Len(index[slug].versions) = 2

\* C21: under every interleaving of a synchronization pass with a command
\* and the edits of the user, the blob of a VersionRecord that index.json
\* holds is never written again with other bytes, nor removed.
C21_BlobsNeverLost ==
    [][\A slug \in DOMAIN diskIndex :
         \A i \in 1..Len(diskIndex[slug].versions) :
            LET path == diskIndex[slug].versions[i].path
            IN path \in DOMAIN blobs => BlobAt(blobs', path) = Some(blobs[path])]_vars

\* the step is the save of the synchronization pass
PassSaves == sync_pc = "tosave" /\ sync_pc' = "idle"

\* C22: the save of a synchronization pass writes the index the pass holds
\* and nothing of what index.json held: a note that a command created and
\* saved after the pass had loaded is no longer in index.json, and neither
\* is a version that a command recorded and saved meanwhile.
C22_LostUpdate ==
    [][PassSaves =>
         /\ \A slug \in DOMAIN diskIndex :
               slug \notin DOMAIN sync_index => slug \notin DOMAIN diskIndex'
         /\ \A slug \in DOMAIN sync_index :
               /\ slug \in DOMAIN diskIndex'
               /\ diskIndex'[slug].versions = sync_index[slug].versions]_vars

\* the command that created "a-2" has saved and ended, its working file is
\* there, and index.json, saved by the pass since, does not hold the note
C22_Witness ==
    /\ pc = "idle"
    /\ sync_pc = "idle"
    /\ working_file(<<"a", "-", "2">>) \in DOMAIN files
    /\ <<"a", "-", "2">> \notin DOMAIN diskIndex
    /\ <<"a">> \in DOMAIN diskIndex

\* C23: a command that fails leaves index.json as it was, since index.json
\* is written by the save of a command that succeeded and by nothing else;
\* and a delete_note_by_title that fails has removed neither the working
\* file nor a version blob.
C23_CommandsFailAtomically ==
    [][/\ diskIndex' # diskIndex => (pc = "tosave" /\ pc' = "loaded")
       /\ pc' = "failed" => diskIndex' = diskIndex
       /\ (Calls("delete_note_by_title") /\ last'.res # "ok") =>
             /\ files' = files
             /\ blobs' = blobs]_vars

\* C32: after every successful create_note, snapshot_if_changed (whatever it
\* returns) and rollback, the note's working_hash is the hash of its last
\* version record and the hash of what its working copy holds then
C32_WorkingHashCurrent ==
    [][\A op \in {"create_note", "snapshot_if_changed", "rollback"} :
          (Calls(op) /\ last'.res = "ok") =>
             LET slug == unwrap(last'.slug)
                 note == index'[slug]
             IN /\ note.working_hash = Some(LastOf(note.versions).hash)
                /\ working_file(slug) \in DOMAIN files'
                /\ note.working_hash = Some(hash_bytes(files'[working_file(slug)]))]_vars

\* a rollback that first promoted an edit and then went back to the empty
\* first version
C32_Witness ==
    /\ Returns("rollback", "ok")
    /\ last.changed
    /\ LET note == index[unwrap(last.slug)]
       IN /\ Len(note.versions) = 3
          /\ note.versions[2].hash = hash_bytes("v2")
          /\ note.working_hash = Some(hash_bytes(""))
          /\ BlobAt(files, working_file(note.slug)) = Some("")

\* C33: a version record one call appends has the hash of the record before
\* it only when it is the copy a rollback appends; what the snapshot step
\* of any call appends differs from its predecessor
C33_EqualHashesOnlyByRollback ==
    [][\A slug \in (DOMAIN index) \cap (DOMAIN index') :
          LET old == index[slug].versions
              new == index'[slug].versions
          IN \A k \in (Len(old) + 1)..Len(new) :
                (k > 1 /\ new[k].hash = new[k - 1].hash) =>
                   /\ Calls("rollback")
                   /\ last'.slug = Some(slug)
                   /\ k = Len(old) + 1 + (IF last'.changed THEN 1 ELSE 0)]_vars

\* a rollback to the current version: two records in a row with one hash,
\* after a snapshot that appended a record of another hash
C33_Witness ==
    /\ Returns("rollback", "ok")
    /\ last.changed
    /\ LET note == index[unwrap(last.slug)]
       IN /\ Len(note.versions) = 3
          /\ note.versions[2].hash # note.versions[1].hash
          /\ note.versions[3].hash = note.versions[2].hash

\* what a call leaves alone of the notes other than slug: their records,
\* their blobs and their working copies
OthersUntouched(slug) ==
    /\ DOMAIN index' \ {slug} = DOMAIN index \ {slug}
    /\ \A other \in DOMAIN index \ {slug} : index'[other] = index[other]
    /\ \A path \in (DOMAIN blobs) \cup (DOMAIN blobs') :
          versions_dir(path) # slug => BlobAt(blobs', path) = BlobAt(blobs, path)
    /\ \A path \in (DOMAIN files) \cup (DOMAIN files') :
          path # working_file(slug) => BlobAt(files', path) = BlobAt(files, path)

\* C31: snapshot_if_changed(slug) leaves every other note's record, blobs
\* and working copy as they were; when it returns false the targeted
\* note's record differs at most in working_hash, no blob is written and a
\* working copy that exists is not written; and in every step updated_at
\* of a note changes exactly when a version record is appended to it
C31_SnapshotFrame ==
    [][/\ Calls("snapshot_if_changed") =>
            LET slug == unwrap(last'.slug)
            IN /\ OthersUntouched(slug)
               /\ (last'.res = "ok" /\ ~last'.changed) =>
                     /\ index'[slug] = [index[slug] EXCEPT
                                           !.working_hash = index'[slug].working_hash]
                     /\ blobs' = blobs
                     /\ working_file(slug) \in DOMAIN files => files' = files
       /\ \A any \in (DOMAIN index) \cap (DOMAIN index') :
             (index'[any].updated_at # index[any].updated_at)
                <=> (Len(index'[any].versions) > Len(index[any].versions))]_vars

\* snapshot_if_changed has returned false for a note of two versions while
\* another note had an edit waiting
C31_Witness ==
    /\ Returns("snapshot_if_changed", "ok")
    /\ ~last.changed
    /\ Len(index[unwrap(last.slug)].versions) = 2
    /\ index[unwrap(last.slug)].updated_at = 2
    /\ \E other \in DOMAIN index \ {unwrap(last.slug)} : Pending(index, files, other)

\* a command or a synchronization pass writes index.json
CommandSaves == pc = "tosave" /\ pc' = "loaded"

\* C34: whatever the interleaving of the loads and saves of a command and
\* of a synchronization pass, each index.json written is the whole index
\* of the process that saves, and every note in it has its versions
\* numbered 1..n in order with current_version = n
C34_SavedIndexNumbered ==
    [][/\ CommandSaves => diskIndex' = index
       /\ PassSaves => diskIndex' = sync_index
       /\ (CommandSaves \/ PassSaves) =>
             \A slug \in DOMAIN diskIndex' : WellNumbered(diskIndex'[slug])]_vars

\* the two processes have both recorded a version 2 of "a" and both have
\* saved: index.json holds two versions, and the blob of the second no
\* longer has the hash its record gives
C34_Witness ==
    /\ pc = "idle"
    /\ sync_pc = "idle"
    /\ <<"a">> \in DOMAIN diskIndex
    /\ Len(diskIndex[<<"a">>].versions) = 2
    /\ version_rel(<<"a">>, 2) \in DOMAIN blobs
    /\ diskIndex[<<"a">>].versions[2].hash # hash_bytes(blobs[version_rel(<<"a">>, 2)])

\* the step in which recv_timeout gives Err(Timeout)
TimesOut ==
    /\ loop = "recv"
    /\ rx = <<>>
    /\ rx' = <<>>
    /\ waited > 0
    /\ waited' = 0

\* C39: whenever recv_timeout times out, a cooldown or more has passed
\* since last_event was set, so that a pass begins exactly when the flag is
\* set
C39_ElapsedAtTimeout ==
    [][TimesOut =>
         /\ last_event >= cooldown
         /\ (loop' = "sync") <=> pending]_vars

\* a pass has begun on a timeout, after a pass that had ended and an event
\* received since
C39_Witness ==
    /\ loop = "sync"
    /\ outcome # "none"
    /\ pending
    /\ last_event >= cooldown

\* a synchronization pass ends
PassEnds == loop = "sync" /\ loop' # "sync"

\* C36: a pass that fails, at the load, at one note's snapshot_if_changed,
\* at the log or at the save, leaves index.json as it was, whatever it has
\* promoted before; the flag is cleared all the same and the loop goes on,
\* and the next pass begins only after a .md event received since
C36_FailedPassNotSaved ==
    [][/\ (PassEnds /\ outcome' # "ok") =>
             /\ diskIndex' = diskIndex
             /\ ~pending'
             /\ loop' = "recv"
       /\ (loop = "recv" /\ loop' = "sync" /\ outcome # "ok") => received >= 1]_vars

\* a pass has failed on the second note after it had promoted the first:
\* the blob of the first note's version 2 is written, index.json has one
\* version of each note, the second note's edit waits, the flag is cleared
C36_Witness ==
    /\ outcome = "note"
    /\ loop = "recv"
    /\ ~pending
    /\ \E slug \in DOMAIN diskIndex :
          /\ Len(diskIndex[slug].versions) = 1
          /\ BlobAt(blobs, version_rel(slug, 2)) = Some("v2")
          /\ \E other \in DOMAIN diskIndex \ {slug} :
                /\ Pending(diskIndex, files, other)
                /\ version_rel(other, 2) \notin DOMAIN blobs

\* a step of the user or of another program in files/, or a notification
\* that is not the pass's own
External ==
    /\ loop' = loop
    /\ files' # files \/ Len(rx') > Len(rx)

\* every note of index.json has its working file
AllWorkingCopies(fs) ==
    \A slug \in DOMAIN diskIndex : working_file(slug) \in DOMAIN fs

\* C38: a pass sends the loop an event only by recreating a working file
\* that was missing and writes no working file that exists; a pass that
\* finds every working file sends none, and a pass that succeeds leaves
\* every working file in place; once nothing outside the pass touches
\* files/ any more, the passes come to an end
C38_Quiesces ==
    /\ [][PassEnds =>
            /\ \A f \in DOMAIN files : BlobAt(files', f) = Some(files[f])
            /\ rx' # rx => (~AllWorkingCopies(files) /\ rx' = Append(rx, "md"))
            /\ AllWorkingCopies(files) => (rx' = rx /\ files' = files)
            /\ outcome' = "ok" => AllWorkingCopies(files')]_vars
    /\ (<>[][~External]_vars) => <>[](loop # "sync")

\* the user has removed the working copy, a pass has recreated it and ended,
\* and the event of the recreation is the one message in the channel
C38_Witness ==
    /\ loop = "recv"
    /\ outcome = "ok"
    /\ ~pending
    /\ rx = <<"md">>
    /\ quiet = 0
    /\ waited = 0
    /\ AllWorkingCopies(files)
    /\ \A slug \in DOMAIN diskIndex : ~Pending(diskIndex, files, slug)

C35_DeletedStaysDeleted ==
    \A slug \in deleted : slug \notin DOMAIN diskIndex

\* C35: the save of a delete takes the note's record out of index.json,
\* and the record comes back only by the save of a command that created
\* the note again or by the save of a synchronization pass that holds it,
\* having loaded index.json when it was there
C35_DeletedBackOnlyByStaleSave ==
    [][/\ (CommandSaves /\ last.op = "delete_note_by_title" /\ last.res = "ok") =>
             unwrap(last.slug) \notin DOMAIN diskIndex'
       /\ \A slug \in deleted :
             (slug \notin DOMAIN diskIndex /\ slug \in DOMAIN diskIndex') =>
                \/ /\ CommandSaves
                   /\ last.op = "create_note"
                   /\ last.slug = Some(slug)
                \/ /\ PassSaves
                   /\ slug \in DOMAIN sync_index]_vars

\* the delete of "a" was saved and the command has ended; the pass, which
\* had loaded before, has saved since: index.json lists "a", whose working
\* file and blobs are gone
C35_Witness ==
    /\ pc = "idle"
    /\ sync_pc = "idle"
    /\ <<"a">> \in deleted
    /\ <<"a">> \in DOMAIN diskIndex
    /\ working_file(<<"a">>) \notin DOMAIN files
    /\ version_rel(<<"a">>, 1) \notin DOMAIN blobs

====
